---- MODULE Spec2Model ----
(***************************************************************************)
(* A model of node2api: the NestJS parser (src/src/parsers/nestjs.ts), the *)
(* axios client writer (src/src/writers/axios.ts) and the OpenAPI writer   *)
(* (src/unnamed/part_003).                                                 *)
(*                                                                         *)
(* Text is modelled as a sequence of one-character strings, so that the    *)
(* regular expressions of the source act on characters as they do in the   *)
(* program.  An optional value is the empty tuple (undefined) or a         *)
(* one-element tuple.                                                      *)
(***************************************************************************)
EXTENDS Integers, Sequences, FiniteSets, TLC

VARIABLES
    pc,        \* position of the run
    baseUrl,   \* Controller.baseUrl
    url,       \* Request.url, the method's own path fragment
    axiosUrl,  \* the url joined by the axios writer (writeFunction)
    docUrl,    \* the url joined by the OpenAPI writer (addPath), before and
               \* after placeholder conversion
    sources,   \* NestjsParser.controllerSrcFiles: the controller source files
    config,    \* the writer's output configuration
    cursor,    \* where the generators getControllers/getRequests stand
    controllers, \* the Controllers yielded so far, each with the Requests
               \* yielded so far
    modules,   \* AxiosWriter: the namespaces of requestsSrc, with their functions
    error,     \* the error that ended the run, if any
    typeSrcFiles, \* NestjsParser.typeSrcFiles: the type source files
    typesSrc,  \* AxiosWriter: the declarations added to typesSrc
    typeNames, \* AxiosWriter: the names imported from the types file
    doc,       \* OpenAPIWriter.doc
    types,     \* OpenAPIWriter.types: the registered declarations by name
    warnings,  \* the lines written by console.warn
    stream,    \* the argument of write
    stdout,    \* the texts written to process.stdout
    disk,      \* the files written to the filesystem
    tasks      \* run in batch mode: the promises of the calls of runTask

vars == <<pc, baseUrl, url, axiosUrl, docUrl, sources, config, cursor,
          controllers, modules, error, typeSrcFiles, typesSrc, typeNames, doc,
          types, warnings, stream, stdout, disk, tasks>>

joinVars == <<baseUrl, url, axiosUrl, docUrl>>

runVars == <<sources, config, cursor, controllers, modules, error>>

outVars == <<typeSrcFiles, typesSrc, typeNames, doc, types, warnings, stream,
             stdout, disk, tasks>>

-----------------------------------------------------------------------------
(* Bounds *)

MaxPathLen == 3
MaxParams == 3
MaxClasses == 2
MaxPathParams == 2
MaxElements == 2
MaxTypeDepth == 2

-----------------------------------------------------------------------------
(* Text helpers *)

\* All sequences over S of length 0..n
SeqsUpTo(S, n) == UNION {[1..k -> S] : k \in 0..n}

RECURSIVE ArrayJoin(_, _)
\* Array.prototype.join(sep)
ArrayJoin(parts, sep) ==
    IF parts = <<>> THEN <<>>
    ELSE IF Len(parts) = 1 THEN parts[1]
    ELSE parts[1] \o sep \o ArrayJoin(Tail(parts), sep)

\* Characters the regular expression atom `.` does not match
LineTerminators == {"\n", "\r"}

\* Characters the regular expression class \w matches, among those modelled
WordChars ==
    {"a", "b", "d", "e", "i", "n", "o", "p", "r", "s", "t", "u", "x", "y"}

RECURSIVE ReplaceSlashRuns(_)
\* s.replace(/\/{2,}/g, '/'): every run of two or more '/' becomes one '/'
ReplaceSlashRuns(s) ==
    IF Len(s) < 2 THEN s
    ELSE IF s[1] = "/" /\ s[2] = "/" THEN ReplaceSlashRuns(Tail(s))
    ELSE <<s[1]>> \o ReplaceSlashRuns(Tail(s))

\* s.replace(/(.+)\/$/, '$1'): a final '/' is dropped when the character before
\* it exists and is matched by `.`
ReplaceTrailingSlash(s) ==
    IF Len(s) >= 2 /\ s[Len(s)] = "/" /\ s[Len(s) - 1] \notin LineTerminators
    THEN SubSeq(s, 1, Len(s) - 1)
    ELSE s

\* The length of the longest prefix of s made of word characters
RECURSIVE WordPrefixLen(_)
WordPrefixLen(s) ==
    IF s = <<>> \/ Head(s) \notin WordChars THEN 0
    ELSE 1 + WordPrefixLen(Tail(s))

RECURSIVE ReplacePlaceholders(_)
\* s.replace(/\:(\w+)/g, (_, cap) => `{${cap}}`)
ReplacePlaceholders(s) ==
    IF s = <<>> THEN <<>>
    ELSE IF s[1] = ":" /\ WordPrefixLen(Tail(s)) > 0
    THEN LET n == WordPrefixLen(Tail(s))
         IN  <<"{">> \o SubSeq(s, 2, n + 1) \o <<"}">>
               \o ReplacePlaceholders(SubSeq(s, n + 2, Len(s)))
    ELSE <<s[1]>> \o ReplacePlaceholders(Tail(s))

-----------------------------------------------------------------------------
(* URL joining *)

\* joinPaths without its first replace
JoinPathsNoCollapse(args) ==
    ReplaceTrailingSlash(ArrayJoin(<<<<>>>> \o args \o <<<<>>>>, <<"/">>))

\* joinPaths(...args) of the axios writer
joinPaths(args) ==
    ReplaceTrailingSlash(
        ReplaceSlashRuns(ArrayJoin(<<<<>>>> \o args \o <<<<>>>>, <<"/">>)))

\* OpenAPIWriter.resolveUrl, up to the placeholder conversion
resolveUrlJoined(u, base) ==
    ReplaceTrailingSlash(
        ReplaceSlashRuns(ArrayJoin(<<<<>>, base, u, <<>>>>, <<"/">>)))

\* OpenAPIWriter.resolveUrl
resolveUrl(u, base) == ReplacePlaceholders(resolveUrlJoined(u, base))


-----------------------------------------------------------------------------
(* The source model read by the parser (ts-morph nodes)                    *)
(*   source file : [baseName, classes]                                     *)
(*   class       : [name, decorators, methods]                             *)
(*   method      : [name, decorators, parameters, returnType]              *)
(*   parameter   : [name, decorators, type, optional]                      *)
(*   decorator   : [name, args]                                            *)
(*   expression  : [kind, ...]                                             *)

StringLiteral(text) == [kind |-> "StringLiteral", text |-> text]
ArrayLiteralExpression(elements) ==
    [kind |-> "ArrayLiteralExpression", elements |-> elements]
ObjectLiteralExpression(properties) ==
    [kind |-> "ObjectLiteralExpression", properties |-> properties]
PropertyAssignment(name, initializer) ==
    [kind |-> "PropertyAssignment", name |-> name, initializer |-> initializer]
ShorthandPropertyAssignment(name) ==
    [kind |-> "ShorthandPropertyAssignment", name |-> name]
\* new ValidationPipe(), a call, an identifier, a template literal ...
NewExpression == [kind |-> "NewExpression"]
Identifier(text) == [kind |-> "Identifier", text |-> text]

Decorator(name, args) == [name |-> name, args |-> args]

ControllerName == <<"C", "o", "n", "t", "r", "o", "l", "l", "e", "r">>
GetName == <<"G", "e", "t">>
PostName == <<"P", "o", "s", "t">>
PutName == <<"P", "u", "t">>
PatchName == <<"P", "a", "t", "c", "h">>
DeleteName == <<"D", "e", "l", "e", "t", "e">>
ParamName == <<"P", "a", "r", "a", "m">>
QueryName == <<"Q", "u", "e", "r", "y">>
BodyName == <<"B", "o", "d", "y">>
HeadersName == <<"H", "e", "a", "d", "e", "r", "s">>
PathName == <<"p", "a", "t", "h">>

\* const MethodDecoratorNames
MethodDecoratorNames == {GetName, PostName, PutName, PatchName, DeleteName}

LowerLetters ==
    <<"a", "b", "c", "d", "e", "f", "g", "h", "i", "j", "k", "l", "m",
      "n", "o", "p", "q", "r", "s", "t", "u", "v", "w", "x", "y", "z">>
UpperLetters ==
    <<"A", "B", "C", "D", "E", "F", "G", "H", "I", "J", "K", "L", "M",
      "N", "O", "P", "Q", "R", "S", "T", "U", "V", "W", "X", "Y", "Z">>

\* The character of `to` at the place c has in `from`, or c
MapLetter(c, from, to) ==
    IF \E k \in 1..Len(from) : from[k] = c
    THEN to[CHOOSE k \in 1..Len(from) : from[k] = c]
    ELSE c

\* String.prototype.toLowerCase
toLowerCase(s) == [i \in 1..Len(s) |-> MapLetter(s[i], UpperLetters, LowerLetters)]

\* String.prototype.toUpperCase
toUpperCase(s) == [i \in 1..Len(s) |-> MapLetter(s[i], LowerLetters, UpperLetters)]

\* node.getDecorator(predicate): the first decorator whose name is in names
getDecoratorIn(node, names) ==
    LET hits == {i \in 1..Len(node.decorators) : node.decorators[i].name \in names}
    IN  IF hits = {} THEN <<>>
        ELSE <<node.decorators[CHOOSE i \in hits : \A j \in hits : i <= j]>>

\* node.getDecorator(name)
getDecorator(node, name) == getDecoratorIn(node, {name})

\* Outcomes of an operation that may throw
Return(value) == [ok |-> TRUE, value |-> value]
Throw(message) == [ok |-> FALSE, message |-> message]

UnknownArgumentType == "unknown argument type"
\* the message of getParams, without its backquotes
ParamWithoutName == "@Param() without property name is not supported"
\* what reading a member of undefined raises
TypeError == "TypeError"

-----------------------------------------------------------------------------
(* NestjsParser *)

\* ObjectLiteralExpression.getProperty(name): the first named property
getProperty(node, name) ==
    LET hits == {i \in 1..Len(node.properties) : node.properties[i].name = name}
    IN  IF hits = {} THEN <<>>
        ELSE <<node.properties[CHOOSE i \in hits : \A j \in hits : i <= j]>>

RECURSIVE getLiteralPath(_, _)
\* getLiteralPath(node, allowObject)
getLiteralPath(node, allowObject) ==
    CASE node.kind = "StringLiteral" -> Return(node.text)
      [] node.kind = "ArrayLiteralExpression" ->
            \* e.asKind(StringLiteral) is undefined for any other element
            IF \E i \in 1..Len(node.elements) :
                   node.elements[i].kind # "StringLiteral"
            THEN Throw(TypeError)
            ELSE Return(ArrayJoin([i \in 1..Len(node.elements) |->
                                      node.elements[i].text], <<"/">>))
      [] node.kind = "ObjectLiteralExpression" ->
            IF ~allowObject THEN Throw(UnknownArgumentType)
            ELSE LET property == getProperty(node, PathName)
                 IN  \* getLiteralPath(undefined) reads undefined.getKind()
                     IF property = <<>> THEN Throw(TypeError)
                     ELSE getLiteralPath(property[1], FALSE)
      [] node.kind = "PropertyAssignment" ->
            getLiteralPath(node.initializer, FALSE)
      [] OTHER -> Throw(UnknownArgumentType)

\* NestjsParser.getUrl
getUrl(deco) ==
    IF deco.args = <<>> THEN Return(<<>>)
    ELSE getLiteralPath(deco.args[1], FALSE)

\* NestjsParser.getBaseUrl
getBaseUrl(deco) ==
    IF deco.args = <<>> THEN Return(<<>>)
    ELSE getLiteralPath(deco.args[1], TRUE)

\* NestjsParser.getVerb
getVerb(method) == getDecoratorIn(method, MethodDecoratorNames)

\* Parameter bindings
Undefined == [kind |-> "undefined"]
Whole(parameter) == [kind |-> "whole", parameter |-> parameter]
Partials(items) == [kind |-> "partials", items |-> items]

\* method.getParameters().map((p) => ({ p, d: p.getDecorator(name) }))
\*       .filter((p) => p.d)
decoratedPairs(method, name) ==
    LET pairs == [i \in 1..Len(method.parameters) |->
                    [p |-> method.parameters[i],
                     d |-> getDecorator(method.parameters[i], name)]]
        Decorated(pair) == pair.d # <<>>
    IN  SelectSeq(pairs, Decorated)

\* pair.d.getArguments()[0]?.asKind(SyntaxKind.StringLiteral)?.getLiteralText()
propertyOf(pair) ==
    LET args == pair.d[1].args
    IN  IF args = <<>> THEN <<>>
        ELSE IF args[1].kind = "StringLiteral" THEN <<args[1].text>>
        ELSE <<>>

\* !property: undefined or the empty string
Falsy(property) == property = <<>> \/ property[1] = <<>>

RECURSIVE CollectPartialsPrepend(_, _)
\* collectPartials with unshift in place of push
CollectPartialsPrepend(pairs, partials) ==
    IF pairs = <<>> THEN [stopped |-> FALSE, partials |-> partials]
    ELSE LET property == IF Head(pairs).d[1].args = <<>> THEN <<>>
                         ELSE IF Head(pairs).d[1].args[1].kind = "StringLiteral"
                         THEN <<Head(pairs).d[1].args[1].text>>
                         ELSE <<>>
         IN  IF property = <<>> \/ property[1] = <<>>
             THEN [stopped |-> TRUE, pair |-> Head(pairs)]
             ELSE CollectPartialsPrepend(Tail(pairs),
                      <<[property |-> property[1],
                         parameter |-> Head(pairs).p]>> \o partials)

RECURSIVE collectPartials(_, _)
\* The loop `for (const pair of pairs)` of getData, getQuery and getParams: it
\* stops at the first pair without property name, or collects the partials
collectPartials(pairs, partials) ==
    IF pairs = <<>> THEN [stopped |-> FALSE, partials |-> partials]
    ELSE LET property == propertyOf(Head(pairs))
         IN  IF Falsy(property)
             THEN [stopped |-> TRUE, pair |-> Head(pairs)]
             ELSE collectPartials(Tail(pairs),
                      Append(partials, [property |-> property[1],
                                        parameter |-> Head(pairs).p]))

\* getData returning the last parameter without property name
GetDataLastWhole(method) ==
    LET pairs == decoratedPairs(method, BodyName)
        nameless == SelectSeq(pairs, LAMBDA pair : Falsy(propertyOf(pair)))
        loop == collectPartials(pairs, <<>>)
    IN  IF pairs = <<>> THEN Undefined
        ELSE IF nameless # <<>> THEN Whole(nameless[Len(nameless)].p)
        ELSE IF loop.partials # <<>> THEN Partials(loop.partials)
        ELSE Undefined

\* NestjsParser.getData
getData(method) ==
    LET pairs == decoratedPairs(method, BodyName)
        loop == collectPartials(pairs, <<>>)
    IN  IF pairs = <<>> THEN Undefined
        ELSE IF loop.stopped THEN Whole(loop.pair.p)
        ELSE IF loop.partials # <<>> THEN Partials(loop.partials)
        ELSE Undefined

\* getQuery returning the last parameter without property name
GetQueryLastWhole(method) ==
    LET pairs == decoratedPairs(method, QueryName)
        nameless == SelectSeq(pairs, LAMBDA pair : Falsy(propertyOf(pair)))
        loop == collectPartials(pairs, <<>>)
    IN  IF pairs = <<>> THEN Undefined
        ELSE IF nameless # <<>> THEN Whole(nameless[Len(nameless)].p)
        ELSE IF loop.partials # <<>> THEN Partials(loop.partials)
        ELSE Undefined

\* NestjsParser.getQuery
getQuery(method) ==
    LET pairs == decoratedPairs(method, QueryName)
        loop == collectPartials(pairs, <<>>)
    IN  IF pairs = <<>> THEN Undefined
        ELSE IF loop.stopped THEN Whole(loop.pair.p)
        ELSE IF loop.partials # <<>> THEN Partials(loop.partials)
        ELSE Undefined

\* getParams returning the parameter without property name, as getQuery does
GetParamsWhole(method) ==
    LET pairs == decoratedPairs(method, ParamName)
        loop == collectPartials(pairs, <<>>)
    IN  IF pairs = <<>> THEN Return(Undefined)
        ELSE IF loop.stopped THEN Return(Whole(loop.pair.p))
        ELSE IF loop.partials # <<>> THEN Return(Partials(loop.partials))
        ELSE Return(Undefined)

\* NestjsParser.getParams
getParams(method) ==
    LET pairs == decoratedPairs(method, ParamName)
        loop == collectPartials(pairs, <<>>)
    IN  IF pairs = <<>> THEN Return(Undefined)
        ELSE IF loop.stopped THEN Throw(ParamWithoutName)
        ELSE IF loop.partials # <<>> THEN Return(Partials(loop.partials))
        ELSE Return(Undefined)

(* A type of the source model: [name, typeParameters, typeArguments].  A     *)
(* reference to a generic declaration carries the declaration's type         *)
(* parameter names and its own type arguments.  The text of a type is a      *)
(* sequence of tokens.                                                       *)
NamedType(name) ==
    [name |-> name, typeParameters |-> <<>>, typeArguments |-> <<>>]
GenericType(name, typeParameters, typeArguments) ==
    [name |-> name, typeParameters |-> typeParameters,
     typeArguments |-> typeArguments]

RECURSIVE typeText(_)
\* Type.getText(null, TypeFormatFlags.None)
typeText(type) ==
    IF type.typeArguments = <<>> THEN <<type.name>>
    ELSE IF type.name = "Array" THEN typeText(type.typeArguments[1]) \o <<"[]">>
    ELSE <<type.name, "<">>
           \o ArrayJoin([i \in 1..Len(type.typeArguments) |->
                            typeText(type.typeArguments[i])], <<", ">>)
           \o <<">">>

\* Type.getTargetType(): the generic declaration a type reference instantiates
getTargetType(type) ==
    IF type.typeArguments = <<>> THEN <<>>
    ELSE <<GenericType(type.name, type.typeParameters,
                       [i \in 1..Len(type.typeParameters) |->
                           NamedType(type.typeParameters[i])])>>

\* The text 'Promise<T>'
PromiseT == <<"Promise", "<", "T", ">">>

\* getReturnType unwrapping every type reference with type arguments
GetReturnTypeUnwrapAny(method) ==
    IF method.returnType.typeArguments # <<>>
    THEN method.returnType.typeArguments[1]
    ELSE method.returnType

\* NestjsParser.getReturnType
getReturnType(method) ==
    LET type == method.returnType
        targetType == getTargetType(type)
    IN  IF targetType # <<>> /\ typeText(targetType[1]) = PromiseT
        THEN type.typeArguments[1]
        ELSE type

\* The body of the loop of NestjsParser.getRequests for a method with a verb
getRequest(method, verb) ==
    LET u == getUrl(verb)
        params == getParams(method)
    IN  IF ~u.ok THEN u
        ELSE IF ~params.ok THEN params
        ELSE Return([url |-> u.value,
                     method |-> toLowerCase(verb.name),
                     params |-> params.value,
                     query |-> getQuery(method),
                     data |-> getData(method),
                     res |-> getReturnType(method),
                     func |-> method])

\* src.getBaseNameWithoutExtension(): the base name without its last extension
getBaseNameWithoutExtension(baseName) ==
    LET dots == {i \in 1..Len(baseName) : baseName[i] = "."}
        last == IF dots = {} THEN 0 ELSE CHOOSE i \in dots : \A j \in dots : j <= i
    IN  IF last <= 1 THEN baseName
        ELSE IF /\ SubSeq(baseName, last, Len(baseName)) = <<".", "t", "s">>
                /\ last >= 3
                /\ SubSeq(baseName, last - 2, last - 1) = <<".", "d">>
        THEN SubSeq(baseName, 1, last - 3)
        ELSE SubSeq(baseName, 1, last - 1)

\* s.split('.', 1)[0]
splitDotFirst(s) ==
    LET dots == {i \in 1..Len(s) : s[i] = "."}
    IN  IF dots = {} THEN s
        ELSE SubSeq(s, 1, (CHOOSE i \in dots : \A j \in dots : i <= j) - 1)

\* getController naming the Controller after the class
GetControllerClassName(src, type, deco) ==
    LET base == IF deco.args = <<>> THEN Return(<<>>)
                ELSE getLiteralPath(deco.args[1], TRUE)
    IN  IF ~base.ok THEN base
        ELSE Return([name |-> type.name,
                     baseUrl |-> base.value,
                     docs |-> type.docs,
                     requests |-> <<>>])

\* The body of the loop of NestjsParser.getControllers for a class with the
\* Controller decorator: the Controller without its requests, which are
\* produced on demand
getController(src, type, deco) ==
    LET base == getBaseUrl(deco)
    IN  IF ~base.ok THEN base
        ELSE Return([name |-> splitDotFirst(getBaseNameWithoutExtension(src.baseName)),
                     baseUrl |-> base.value,
                     docs |-> type.docs,
                     requests |-> <<>>])

-----------------------------------------------------------------------------
(* AxiosWriter *)

\* The formal parameters a binding contributes
bindingParameters(binding) ==
    IF binding.kind = "undefined" THEN <<>>
    ELSE IF binding.kind = "partials"
    THEN [i \in 1..Len(binding.items) |-> binding.items[i].parameter]
    ELSE <<binding.parameter>>

\* A string is truthy when it is defined and not empty
Truthy(optionalText) == optionalText # <<>> /\ optionalText[1] # <<>>

\* addParameters keeping the declaration order of the handler
AddParametersDeclared(request, options) ==
    LET bound == {p \in DOMAIN request.func.parameters :
                     \E b \in {request.params, request.query, request.data} :
                         \/ b.kind = "whole" /\ b.parameter = request.func.parameters[p]
                         \/ b.kind = "partials" /\ \E k \in 1..Len(b.items) :
                                b.items[k].parameter = request.func.parameters[p]}
        parameters == SelectSeq(request.func.parameters,
                                LAMBDA q : \E p \in bound : request.func.parameters[p] = q)
    IN  [i \in 1..Len(parameters) |->
            [name |-> parameters[i].name,
             type |-> <<parameters[i].type.name>>,
             hasQuestionToken |-> parameters[i].optional]]
        \o (IF options # <<>> /\ options[1] # <<>>
            THEN <<[name |-> options[1],
                    type |-> <<"AxiosRequestConfig">>,
                    hasQuestionToken |-> TRUE]>>
            ELSE <<>>)

\* AxiosWriter.addParameters: the parameters of the emitted function
addParameters(request, options) ==
    LET parameters == bindingParameters(request.params)
                        \o bindingParameters(request.query)
                        \o bindingParameters(request.data)
    IN  [i \in 1..Len(parameters) |->
            [name |-> parameters[i].name,
             type |-> typeText(parameters[i].type),
             hasQuestionToken |-> parameters[i].optional]]
        \o (IF Truthy(options)
            THEN <<[name |-> options[1],
                    type |-> <<"AxiosRequestConfig">>,
                    hasQuestionToken |-> TRUE]>>
            ELSE <<>>)

\* AxiosWriter.addReturnType: Promise<...> around the text of request.res
addReturnType(request) == <<"Promise", "<">> \o typeText(request.res) \o <<">">>

RECURSIVE MapSetKeepFirst(_, _, _)
\* mapSet keeping the value a key already has
MapSetKeepFirst(map, k, v) ==
    IF map = <<>> THEN <<<<k, v>>>>
    ELSE IF Head(map)[1] = k THEN map
    ELSE <<Head(map)>> \o MapSetKeepFirst(Tail(map), k, v)

RECURSIVE mapSet(_, _, _)
\* Map.prototype.set on a map kept as the sequence of its entries in
\* insertion order
mapSet(map, k, v) ==
    IF map = <<>> THEN <<<<k, v>>>>
    ELSE IF Head(map)[1] = k THEN <<<<k, v>>>> \o Tail(map)
    ELSE <<Head(map)>> \o mapSet(Tail(map), k, v)

RECURSIVE mapOfPartials(_, _)
\* for (const { property, parameter } of parameters) map.set(property, name)
mapOfPartials(items, map) ==
    IF items = <<>> THEN map
    ELSE mapOfPartials(Tail(items),
                       mapSet(map, Head(items).property, Head(items).parameter.name))

\* createMergedObjectExpression
createMergedObjectExpression(binding) ==
    IF binding.kind = "whole" THEN Identifier(binding.parameter.name)
    ELSE LET map == mapOfPartials(binding.items, <<>>)
         IN  ObjectLiteralExpression(
                 [i \in 1..Len(map) |->
                     PropertyAssignment(map[i][1], Identifier(map[i][2]))])

RECURSIVE splitBeforeColon(_)
\* s.split(/(?=:)/g): s cut before every ':' but a leading one
splitBeforeColon(s) ==
    LET colons == {i \in 2..Len(s) : s[i] = ":"}
    IN  IF colons = {} THEN <<s>>
        ELSE LET i == CHOOSE c \in colons : \A d \in colons : c <= d
             IN  <<SubSeq(s, 1, i - 1)>> \o splitBeforeColon(SubSeq(s, i, Len(s)))

RECURSIVE dotPrefixLen(_)
\* The length of the longest prefix of s the pattern .+ can match
dotPrefixLen(s) ==
    IF s = <<>> \/ Head(s) \in LineTerminators THEN 0
    ELSE 1 + dotPrefixLen(Tail(s))

\* const [exp, literal] = span.split(/\/(.+)/): the text before the first '/'
\* that something follows, and what follows it; literal is undefined when no
\* '/' is followed by anything
splitSlashRest(span) ==
    LET slashes == {i \in 1..(Len(span) - 1) :
                       span[i] = "/" /\ span[i + 1] \notin LineTerminators}
    IN  IF slashes = {} THEN [exp |-> span, literal |-> <<>>]
        ELSE LET i == CHOOSE c \in slashes : \A d \in slashes : c <= d
                 rest == SubSeq(span, i + 1, Len(span))
             IN  [exp |-> SubSeq(span, 1, i - 1),
                  literal |-> <<SubSeq(rest, 1, dotPrefixLen(rest))>>]

\* What '/' + undefined evaluates to
SlashUndefined == <<"/", "u", "n", "d", "e", "f", "i", "n", "e", "d">>

TemplateExpression(head, templateSpans) ==
    [kind |-> "TemplateExpression", head |-> head, templateSpans |-> templateSpans]

\* createUrlStringExpression
createUrlStringExpression(request, u) ==
    IF request.params.kind = "undefined" THEN StringLiteral(u)
    ELSE LET pieces == splitBeforeColon(u)
             head == Head(pieces)
             spans == Tail(pieces)
         IN  TemplateExpression(head,
                 [i \in 1..Len(spans) |->
                     LET parts == splitSlashRest(spans[i])
                     IN  [expression |-> Identifier(Tail(parts.exp)),
                          literal |->
                              IF i < Len(spans)
                              THEN IF parts.literal = <<>> THEN SlashUndefined
                                   ELSE <<"/">> \o parts.literal[1]
                              ELSE IF Truthy(parts.literal)
                                   THEN <<"/">> \o parts.literal[1]
                                   ELSE <<>>]])

MethodKey == <<"m", "e", "t", "h", "o", "d">>
UrlKey == <<"u", "r", "l">>
ParamsKey == <<"p", "a", "r", "a", "m", "s">>
DataKey == <<"d", "a", "t", "a">>

SpreadAssignment(expression) ==
    [kind |-> "SpreadAssignment", expression |-> expression]

\* createRequestOptions
createRequestOptions(request, u, overwrite) ==
    ObjectLiteralExpression(
        << PropertyAssignment(MethodKey, StringLiteral(request.method)),
           PropertyAssignment(UrlKey, createUrlStringExpression(request, u)) >>
        \o (IF request.query.kind # "undefined"
            THEN <<PropertyAssignment(ParamsKey,
                       createMergedObjectExpression(request.query))>>
            ELSE <<>>)
        \o (IF request.data.kind # "undefined"
            THEN <<PropertyAssignment(DataKey,
                       createMergedObjectExpression(request.data))>>
            ELSE <<>>)
        \o (IF Truthy(overwrite)
            THEN <<SpreadAssignment(Identifier(overwrite[1]))>>
            ELSE <<>>))

\* AxiosWriter.writeFunction: the function added to the namespace
writeFunction(request, base, options) ==
    [name |-> request.func.name,
     typeParameters |-> request.func.typeParameters,
     parameters |-> addParameters(request, options),
     returnType |-> addReturnType(request),
     statement |-> createRequestOptions(request,
                       joinPaths(<<base, request.url>>), options),
     docs |-> request.func.docs]

-----------------------------------------------------------------------------
(* Inputs of the URL joining: path literals over URL path characters *)

PathChars == {"/", ":", "a"}

ExamplePaths ==
    { <<"u", "s", "e", "r", "s">>,
      <<"/", "u", "s", "e", "r", "s", "/">>,
      <<":", "i", "d">>,
      <<"/", ":", "i", "d", "/">> }

Paths == SeqsUpTo(PathChars, MaxPathLen) \cup ExamplePaths

-----------------------------------------------------------------------------
(* SpecJoin: the two writers join a base path and a path fragment *)

InitJoin ==
    /\ pc = "start"
    /\ baseUrl \in Paths
    /\ url \in Paths
    /\ axiosUrl = <<>>
    /\ docUrl = <<>>
    /\ sources = <<>>
    /\ config = <<>>
    /\ cursor = <<>>
    /\ controllers = <<>>
    /\ modules = <<>>
    /\ error = <<>>
    /\ typeSrcFiles = <<>>
    /\ typesSrc = <<>>
    /\ typeNames = <<>>
    /\ doc = <<>>
    /\ types = <<>>
    /\ warnings = <<>>
    /\ stream = FALSE
    /\ stdout = <<>>
    /\ disk = <<>>
    /\ tasks = <<>>

\* AxiosWriter.writeFunction: const url = joinPaths(baseUrl, request.url)
WriteFunctionUrl ==
    /\ pc = "start"
    /\ axiosUrl' = <<joinPaths(<<baseUrl, url>>)>>
    /\ pc' = "axios"
    /\ UNCHANGED <<baseUrl, url, docUrl>>
    /\ UNCHANGED runVars
    /\ UNCHANGED outVars

\* OpenAPIWriter.addPath: const url = this.resolveUrl(request.url, controller.baseUrl)
AddPathUrl ==
    /\ pc = "start"
    /\ docUrl' = <<resolveUrlJoined(url, baseUrl), resolveUrl(url, baseUrl)>>
    /\ pc' = "openapi"
    /\ UNCHANGED <<baseUrl, url, axiosUrl>>
    /\ UNCHANGED runVars
    /\ UNCHANGED outVars

NextJoin == WriteFunctionUrl \/ AddPathUrl

SpecJoin == InitJoin /\ [][NextJoin]_vars

-----------------------------------------------------------------------------
(* A run of AxiosWriter.writeModules over the generators of the parser.     *)
(* cursor = [file, class, method] is the class and method last reached.     *)

\* The classes with the Controller decorator that getControllers has not
\* reached yet, as <<file index, class index>>
ControllersAhead ==
    {fc \in UNION {{<<f, c>> : c \in 1..Len(sources[f].classes)} :
                      f \in 1..Len(sources)} :
        /\ \/ fc[1] > cursor.file
           \/ fc[1] = cursor.file /\ fc[2] > cursor.class
        /\ getDecorator(sources[fc[1]].classes[fc[2]], ControllerName) # <<>>}

\* The methods with a verb decorator that getRequests has not reached yet
RequestsAhead ==
    LET type == sources[cursor.file].classes[cursor.class]
    IN  {m \in 1..Len(type.methods) :
            m > cursor.method /\ getVerb(type.methods[m]) # <<>>}

\* The last element of a sequence replaced
SetLast(seq, value) == [seq EXCEPT ![Len(seq)] = value]

\* One step of `for (const controller of this.parser.getControllers())`:
\* getControllers runs to its next yield and writeModules adds the namespace
NextController ==
    /\ pc = "controllers"
    /\ IF ControllersAhead = {}
       THEN /\ pc' = "modulesWritten"
            /\ UNCHANGED <<cursor, controllers, modules, error>>
       ELSE LET fc == CHOOSE a \in ControllersAhead : \A b \in ControllersAhead :
                          a[1] < b[1] \/ (a[1] = b[1] /\ a[2] <= b[2])
                src == sources[fc[1]]
                type == src.classes[fc[2]]
                got == getController(src, type, getDecorator(type, ControllerName)[1])
            IN  IF got.ok
                THEN /\ controllers' = Append(controllers, got.value)
                     /\ modules' = Append(modules,
                            [name |-> toUpperCase(got.value.name),
                             docs |-> got.value.docs,
                             functions |-> <<>>])
                     /\ cursor' = [file |-> fc[1], class |-> fc[2], method |-> 0]
                     /\ pc' = "requests"
                     /\ UNCHANGED error
                ELSE /\ error' = <<got.message>>
                     /\ pc' = "failed"
                     /\ UNCHANGED <<cursor, controllers, modules>>
    /\ UNCHANGED <<sources, config>>
    /\ UNCHANGED joinVars
    /\ UNCHANGED outVars

\* NextRequest saving the requests file as each function is written
NextRequestSaving ==
    /\ pc = "requests"
    /\ IF RequestsAhead = {}
       THEN /\ pc' = "controllers"
            /\ UNCHANGED <<cursor, controllers, modules, error, disk>>
       ELSE LET m == CHOOSE a \in RequestsAhead : \A b \in RequestsAhead : a <= b
                method == sources[cursor.file].classes[cursor.class].methods[m]
                got == getRequest(method, getVerb(method)[1])
                controller == controllers[Len(controllers)]
                mod == modules[Len(modules)]
            IN  IF got.ok
                THEN /\ controllers' = SetLast(controllers,
                            [controller EXCEPT
                                !.requests = Append(@, got.value)])
                     /\ modules' = SetLast(modules,
                            [mod EXCEPT
                                !.functions = Append(@,
                                    writeFunction(got.value, controller.baseUrl,
                                                  config.options))])
                     /\ disk' = Append(disk, [modules |-> modules'])
                     /\ cursor' = [cursor EXCEPT !.method = m]
                     /\ pc' = "requests"
                     /\ UNCHANGED error
                ELSE /\ error' = <<got.message>>
                     /\ pc' = "failed"
                     /\ UNCHANGED <<cursor, controllers, modules, disk>>
    /\ UNCHANGED <<sources, config>>
    /\ UNCHANGED joinVars
    /\ UNCHANGED <<typeSrcFiles, typesSrc, typeNames, doc, types, warnings,
                   stream, stdout, tasks>>

\* One step of `for (const request of controller.requests)`: getRequests runs
\* to its next yield and writeModules calls writeFunction
NextRequest ==
    /\ pc = "requests"
    /\ IF RequestsAhead = {}
       THEN /\ pc' = "controllers"
            /\ UNCHANGED <<cursor, controllers, modules, error>>
       ELSE LET m == CHOOSE a \in RequestsAhead : \A b \in RequestsAhead : a <= b
                method == sources[cursor.file].classes[cursor.class].methods[m]
                got == getRequest(method, getVerb(method)[1])
                controller == controllers[Len(controllers)]
                mod == modules[Len(modules)]
            IN  IF got.ok
                THEN /\ controllers' = SetLast(controllers,
                            [controller EXCEPT
                                !.requests = Append(@, got.value)])
                     /\ modules' = SetLast(modules,
                            [mod EXCEPT
                                !.functions = Append(@,
                                    writeFunction(got.value, controller.baseUrl,
                                                  config.options))])
                     /\ cursor' = [cursor EXCEPT !.method = m]
                     /\ pc' = "requests"
                     /\ UNCHANGED error
                ELSE /\ error' = <<got.message>>
                     /\ pc' = "failed"
                     /\ UNCHANGED <<cursor, controllers, modules>>
    /\ UNCHANGED <<sources, config>>
    /\ UNCHANGED joinVars
    /\ UNCHANGED outVars

NextRun == NextController \/ NextRequest

\* The OpenAPI document of a new OpenAPIWriter
EmptyDocument == [paths |-> <<>>, schemas |-> <<>>, tags |-> <<>>]

\* The state before write(strm) is called on the given controller sources
\* and type sources
InitWrite(srcs, cfg, typeFiles, strm) ==
    /\ pc = "controllers"
    /\ sources = srcs
    /\ config = cfg
    /\ cursor = [file |-> 1, class |-> 0, method |-> 0]
    /\ controllers = <<>>
    /\ modules = <<>>
    /\ error = <<>>
    /\ baseUrl = <<>>
    /\ url = <<>>
    /\ axiosUrl = <<>>
    /\ docUrl = <<>>
    /\ typeSrcFiles = typeFiles
    /\ typesSrc = <<>>
    /\ typeNames = <<>>
    /\ doc = EmptyDocument
    /\ types = <<>>
    /\ warnings = <<>>
    /\ stream = strm
    /\ stdout = <<>>
    /\ disk = <<>>
    /\ tasks = <<>>

\* The state of a run before write() is called on the given sources
InitRun(srcs, cfg) == InitWrite(srcs, cfg, <<>>, FALSE)

-----------------------------------------------------------------------------
(* SpecParams: one handler whose parameters carry every mix of binding      *)
(* annotations                                                              *)

Digits == <<"0", "1", "2", "3", "4", "5", "6", "7", "8", "9">>

\* The name of the i-th parameter of a handler: p1, p2, ...
ParamIdent(i) == <<"p", Digits[i + 1]>>

\* The argument lists of a parameter decorator: none, a field name, an empty
\* field name, a pipe
NoArgs == <<>>
IdArg == <<StringLiteral(<<"i", "d">>)>>
NArg == <<StringLiteral(<<"n">>)>>
EmptyArg == <<StringLiteral(<<>>)>>
PipeArg == <<NewExpression>>

\* The decorators of one parameter
ParameterDecorators ==
    {<<>>}
    \cup {<<Decorator(ParamName, a)>> : a \in {NoArgs, IdArg, NArg}}
    \cup {<<Decorator(QueryName, a)>> : a \in {NoArgs, IdArg, NArg, PipeArg}}
    \cup {<<Decorator(BodyName, a)>> : a \in {NoArgs, IdArg, NArg, EmptyArg}}
    \cup { <<Decorator(HeadersName, NoArgs)>>,
           <<Decorator(QueryName, NArg), Decorator(BodyName, NoArgs)>> }

StringType == NamedType("string")

\* The parameter lists of a handler with k parameters
ParameterLists(k) ==
    {[i \in 1..k |->
         [name |-> ParamIdent(i), decorators |-> ds[i],
          type |-> StringType, optional |-> (i = 2)]] :
        ds \in [1..k -> ParameterDecorators]}

Method(name, decorators, parameters, returnType) ==
    [name |-> name, decorators |-> decorators, parameters |-> parameters,
     returnType |-> returnType, typeParameters |-> <<>>, docs |-> <<>>]

Class(name, decorators, methods) ==
    [name |-> name, decorators |-> decorators, methods |-> methods, docs |-> <<>>]

SourceFile(baseName, classes) == [baseName |-> baseName, classes |-> classes]

UsersControllerTs ==
    <<"u", "s", "e", "r", "s", ".", "c", "o", "n", "t", "r", "o", "l", "l", "e",
      "r", ".", "t", "s">>

\* A source file with one controller class with one handler
OneHandler(controllerArgs, verbName, verbArgs, parameters, returnType) ==
    <<SourceFile(UsersControllerTs,
        <<Class(<<"U">>, <<Decorator(ControllerName, controllerArgs)>>,
            <<Method(<<"f">>, <<Decorator(verbName, verbArgs)>>, parameters,
                     returnType)>>)>>)>>

\* config.options: the name of the overrides parameter, if any
OptionsNames == {<<>>, <<<<"o">>>>}

InitParams ==
    \E k \in 0..MaxParams, options \in OptionsNames :
        \E parameters \in ParameterLists(k) :
            InitRun(OneHandler(<<>>, GetName, <<>>, parameters, StringType),
                    [options |-> options])

SpecParams == InitParams /\ [][NextRun]_vars

\* The handler of the run and what the run made of it
TheMethod == sources[1].classes[1].methods[1]
Parsed == cursor.method = 1
Failed == pc = "failed"
TheRequest == controllers[1].requests[1]
TheFunction == modules[1].functions[1]

\* The parameters of the handler whose decorator for a source has a field name
\* or has none
HasDecorator(p, name) == \E i \in 1..Len(p.decorators) : p.decorators[i].name = name
FirstDecorator(p, name) ==
    p.decorators[CHOOSE i \in 1..Len(p.decorators) :
                    /\ p.decorators[i].name = name
                    /\ \A j \in 1..(i - 1) : p.decorators[j].name # name]
\* The annotation names a field: its first argument is a non-empty string literal
NamesField(d) ==
    /\ d.args # <<>>
    /\ d.args[1].kind = "StringLiteral"
    /\ d.args[1].text # <<>>
FieldOf(p, name) == FirstDecorator(p, name).args[1].text
Annotated(name) ==
    SelectSeq(TheMethod.parameters, LAMBDA p : HasDecorator(p, name))
FieldLess(name) ==
    SelectSeq(Annotated(name), LAMBDA p : ~NamesField(FirstDecorator(p, name)))

\* What a source's binding is when each of its annotations names a field
NamedBinding(name) ==
    IF Annotated(name) = <<>> THEN Undefined
    ELSE Partials([i \in 1..Len(Annotated(name)) |->
                      [property |-> FieldOf(Annotated(name)[i], name),
                       parameter |-> Annotated(name)[i]]])

\* The set of elements of a sequence
Range(seq) == {seq[i] : i \in 1..Len(seq)}

-----------------------------------------------------------------------------
(* C2 *)

\* C2: getParams raises a fatal error, and the handler yields no Request,
\* whenever some Param-annotated parameter has no string-literal field name,
\* wherever it stands; otherwise params is one Partial per Param-annotated
\* parameter, in declaration order.
C2_ParamNeedsName ==
    /\ Failed =>
          /\ FieldLess(ParamName) # <<>>
          /\ error = <<ParamWithoutName>>
          /\ controllers[1].requests = <<>>
          /\ modules[1].functions = <<>>
    /\ Parsed =>
          /\ FieldLess(ParamName) = <<>>
          /\ TheRequest.params = NamedBinding(ParamName)
    /\ pc = "modulesWritten" => Parsed

\* The run failed on a handler whose last Param annotation has no field name
\* while an earlier one has
C2_Witness ==
    /\ Failed
    /\ Len(Annotated(ParamName)) >= 2
    /\ NamesField(FirstDecorator(Annotated(ParamName)[1], ParamName))
    /\ ~NamesField(FirstDecorator(
            Annotated(ParamName)[Len(Annotated(ParamName))], ParamName))

-----------------------------------------------------------------------------
(* C3 *)

\* C3: in getQuery and getData, when some parameter annotated for the source
\* has no field name, the binding is the first such parameter, as a single
\* Whole value: the Partials before it and the annotated parameters after it
\* are not in the binding; and no error is reported for it.
C3_FirstWhole ==
    /\ Parsed =>
          /\ FieldLess(QueryName) # <<>> =>
                TheRequest.query = Whole(FieldLess(QueryName)[1])
          /\ FieldLess(BodyName) # <<>> =>
                TheRequest.data = Whole(FieldLess(BodyName)[1])
    /\ Failed => FieldLess(ParamName) # <<>>
    /\ FieldLess(ParamName) = <<>> /\ pc = "modulesWritten" => Parsed

\* A parsed handler with a field-less Query annotation between two that name
\* a field
C3_Witness ==
    /\ Parsed
    /\ Len(Annotated(QueryName)) = 3
    /\ NamesField(FirstDecorator(Annotated(QueryName)[1], QueryName))
    /\ ~NamesField(FirstDecorator(Annotated(QueryName)[2], QueryName))
    /\ NamesField(FirstDecorator(Annotated(QueryName)[3], QueryName))

-----------------------------------------------------------------------------
(* C4 *)

BindingSources == {ParamName, QueryName, BodyName}

BindingOf(request, name) ==
    IF name = ParamName THEN request.params
    ELSE IF name = QueryName THEN request.query
    ELSE request.data

\* C4: for each source without a field-less annotation, the binding is the
\* sequence of the parameters annotated for the source, in declaration order,
\* each with its field name; a source without annotated parameter has no
\* binding; a parameter without binding annotation is in no binding.
C4_PartialsInOrder ==
    Parsed =>
        /\ \A name \in BindingSources :
              FieldLess(name) = <<>> =>
                  BindingOf(TheRequest, name) = NamedBinding(name)
        /\ \A p \in Range(TheMethod.parameters) :
              (\A name \in BindingSources : ~HasDecorator(p, name)) =>
                  \A name \in BindingSources :
                      p \notin Range(bindingParameters(BindingOf(TheRequest, name)))

\* A parsed handler with two Query annotations naming fields and a parameter
\* without binding annotation
C4_Witness ==
    /\ Parsed
    /\ Len(Annotated(QueryName)) = 2
    /\ FieldLess(QueryName) = <<>>
    /\ \E p \in Range(TheMethod.parameters) :
          \A name \in BindingSources : ~HasDecorator(p, name)

-----------------------------------------------------------------------------
(* C8 *)

\* The names of the parameters a binding holds, in its order
NamesIn(binding) ==
    CASE binding.kind = "undefined" -> <<>>
      [] binding.kind = "whole" -> <<binding.parameter.name>>
      [] binding.kind = "partials" ->
            [i \in 1..Len(binding.items) |-> binding.items[i].parameter.name]

NamesOf(parameters) == [i \in 1..Len(parameters) |-> parameters[i].name]

OverridesConfigured == config.options # <<>> /\ config.options[1] # <<>>

-----------------------------------------------------------------------------
(* C9 *)

\* The properties of the request options
OptionsProperties == TheFunction.statement.properties

\* The value the request options give for a key, as a set (empty when the
\* options have no such key)
OptionValues(key) ==
    {OptionsProperties[i].initializer :
        i \in {j \in 1..Len(OptionsProperties) :
                  /\ OptionsProperties[j].kind = "PropertyAssignment"
                  /\ OptionsProperties[j].name = key}}

\* The entries of an object literal with a given name
Entries(object, name) ==
    {i \in 1..Len(object.properties) : object.properties[i].name = name}

\* A Whole binding is emitted as the identifier of its parameter
WholeEmitted(binding, emitted) ==
    binding.kind = "whole" => emitted = Identifier(binding.parameter.name)

\* `params` is in the options iff the Request has a query binding, `data` iff
\* it has a body binding
OptionsPresence ==
    /\ Cardinality(OptionValues(ParamsKey)) =
          IF TheRequest.query.kind = "undefined" THEN 0 ELSE 1
    /\ Cardinality(OptionValues(DataKey)) =
          IF TheRequest.data.kind = "undefined" THEN 0 ELSE 1

\* Every Partial's field maps to that Partial's own parameter
EveryPartialMapped(binding, emitted) ==
    binding.kind = "partials" =>
        /\ emitted.kind = "ObjectLiteralExpression"
        /\ \A k \in 1..Len(binding.items) :
              /\ Entries(emitted, binding.items[k].property) # {}
              /\ \A i \in Entries(emitted, binding.items[k].property) :
                    emitted.properties[i].initializer =
                        Identifier(binding.items[k].parameter.name)

\* Every Partial's field has one entry, which maps to the parameter of the last
\* Partial with that field; with distinct fields the entries are the Partials,
\* in order
LastPartialMapped(binding, emitted) ==
    binding.kind = "partials" =>
        /\ emitted.kind = "ObjectLiteralExpression"
        /\ \A i \in 1..Len(emitted.properties) :
              \E k \in 1..Len(binding.items) :
                  emitted.properties[i].name = binding.items[k].property
        /\ \A k \in 1..Len(binding.items) :
              LET same == {j \in 1..Len(binding.items) :
                              binding.items[j].property = binding.items[k].property}
                  last == CHOOSE j \in same : \A l \in same : l <= j
              IN  /\ Cardinality(Entries(emitted, binding.items[k].property)) = 1
                  /\ \A i \in Entries(emitted, binding.items[k].property) :
                        emitted.properties[i].initializer =
                            Identifier(binding.items[last].parameter.name)
        /\ (\A j, k \in 1..Len(binding.items) :
                binding.items[j].property = binding.items[k].property => j = k)
            => emitted.properties =
                  [k \in 1..Len(binding.items) |->
                      PropertyAssignment(binding.items[k].property,
                          Identifier(binding.items[k].parameter.name))]

\* C9 as stated: params iff query, data iff body; a Whole binding is emitted as
\* the parameter's identifier; in the object literal of a Partial sequence the
\* entry of every Partial's property maps to that Partial's parameter.
C9_EveryPartialMapped ==
    Parsed =>
        /\ OptionsPresence
        /\ \A e \in OptionValues(ParamsKey) :
              WholeEmitted(TheRequest.query, e) /\ EveryPartialMapped(TheRequest.query, e)
        /\ \A e \in OptionValues(DataKey) :
              WholeEmitted(TheRequest.data, e) /\ EveryPartialMapped(TheRequest.data, e)

\* C9 amended: params iff query, data iff body; a Whole binding is emitted as
\* the parameter's identifier; the object literal of a Partial sequence has one
\* entry per distinct field name, which maps to the parameter of the last
\* Partial with that field name, so to a Partial's own parameter when no later
\* Partial repeats its field name.
C9_LastPartialMapped ==
    Parsed =>
        /\ OptionsPresence
        /\ \A e \in OptionValues(ParamsKey) :
              WholeEmitted(TheRequest.query, e) /\ LastPartialMapped(TheRequest.query, e)
        /\ \A e \in OptionValues(DataKey) :
              WholeEmitted(TheRequest.data, e) /\ LastPartialMapped(TheRequest.data, e)

\* A function emitted for a handler with two Query annotations naming the same
\* field and a third naming another
C9_Witness ==
    /\ Parsed
    /\ TheRequest.query.kind = "partials"
    /\ Len(TheRequest.query.items) = 3
    /\ TheRequest.query.items[1].property = TheRequest.query.items[3].property
    /\ TheRequest.query.items[1].property # TheRequest.query.items[2].property

-----------------------------------------------------------------------------
(* SpecUrl: one handler with path parameters under a url template           *)

\* The path arguments of the verb decorator: none, ':id', ':id/posts',
\* 'a/:id', ':x/b/:y', 'a'
UrlTemplates ==
    { NoArgs,
      <<StringLiteral(<<":", "i", "d">>)>>,
      <<StringLiteral(<<":", "i", "d", "/", "p", "o", "s", "t", "s">>)>>,
      <<StringLiteral(<<"a", "/", ":", "i", "d">>)>>,
      <<StringLiteral(<<":", "x", "/", "b", "/", ":", "y">>)>>,
      <<StringLiteral(<<":", "x", "/", ":", "y">>)>>,
      <<StringLiteral(<<"a">>)>> }

\* The arguments of the Controller decorator: none, 'users'
BaseUrls == {NoArgs, <<StringLiteral(<<"u", "s", "e", "r", "s">>)>>}

PathFields == {<<"i", "d">>, <<"x">>, <<"y">>}

\* A path parameter: @Param(field) named after the field (id) or not (uid)
PathParameters ==
    {[name |-> prefix \o field,
      decorators |-> <<Decorator(ParamName, <<StringLiteral(field)>>)>>,
      type |-> StringType, optional |-> FALSE] :
        field \in PathFields, prefix \in {<<>>, <<"u">>}}

PathParameterLists == SeqsUpTo(PathParameters, MaxPathParams)

InitUrl ==
    \E base \in BaseUrls, template \in UrlTemplates,
       parameters \in PathParameterLists :
        InitRun(OneHandler(base, GetName, template, parameters, StringType),
                [options |-> <<>>])

SpecUrl == InitUrl /\ [][NextRun]_vars

-----------------------------------------------------------------------------
(* C10 *)

RECURSIVE Placeholders(_)
\* The names of the `:name` placeholders of a url template, in order
Placeholders(s) ==
    IF s = <<>> THEN <<>>
    ELSE IF s[1] = ":" /\ WordPrefixLen(Tail(s)) > 0
    THEN LET n == WordPrefixLen(Tail(s))
         IN  <<SubSeq(s, 2, n + 1)>> \o Placeholders(SubSeq(s, n + 2, Len(s)))
    ELSE Placeholders(Tail(s))

\* The url template of the handler: base path joined with the path fragment
TheTemplate == joinPaths(<<controllers[1].baseUrl, TheRequest.url>>)

\* The url the request options give
TheUrlExpression ==
    OptionsProperties[CHOOSE i \in 1..Len(OptionsProperties) :
                         OptionsProperties[i].name = UrlKey].initializer

\* The names of the formal parameters bound to a field of the path
BoundTo(field) ==
    {TheRequest.params.items[k].parameter.name :
        k \in {j \in 1..Len(TheRequest.params.items) :
                  TheRequest.params.items[j].property = field}}

\* C10: when a Request has path Partials, each `:name` placeholder of the url
\* template is replaced by a substitution of the formal parameter bound to the
\* field `name`, so every identifier substituted into the emitted url is the
\* name of a formal parameter of the function, also when the parameter's name
\* differs from the field name.
C10_SubstitutesBoundParameter ==
    /\ Parsed
    /\ TheRequest.params.kind = "partials"
    /\ \A name \in Range(Placeholders(TheTemplate)) : BoundTo(name) # {}
    => /\ TheUrlExpression.kind = "TemplateExpression"
       /\ Len(TheUrlExpression.templateSpans) = Len(Placeholders(TheTemplate))
       /\ \A i \in 1..Len(TheUrlExpression.templateSpans) :
             LET substituted == TheUrlExpression.templateSpans[i].expression.text
             IN  /\ substituted \in BoundTo(Placeholders(TheTemplate)[i])
                 /\ substituted \in Range(NamesOf(TheFunction.parameters))

-----------------------------------------------------------------------------
(* SpecPath: the arguments of the Controller decorator and of the verb      *)
(* decorator take every shape                                               *)

TextA == <<"a">>
TextAB == <<"a", "/", "b">>

\* The elements of an array literal: string literals and an identifier
ArrayElements == {StringLiteral(TextA), StringLiteral(<<"b">>), Identifier(<<"x">>)}

ArrayShapes ==
    {ArrayLiteralExpression(es) : es \in SeqsUpTo(ArrayElements, MaxElements)}

HostName == <<"h", "o", "s", "t">>

\* { path: 'a' }, { path: ['a', 'b'] }, { host: 'a', path: 'a/b' },
\* { host: 'a' }, {}, { path }, { path: { path: 'a' } }, { path: x },
\* { path: ['a', x] }
ObjectShapes ==
    { ObjectLiteralExpression(<<PropertyAssignment(PathName, StringLiteral(TextA))>>),
      ObjectLiteralExpression(<<PropertyAssignment(PathName,
          ArrayLiteralExpression(<<StringLiteral(TextA), StringLiteral(<<"b">>)>>))>>),
      ObjectLiteralExpression(<<PropertyAssignment(HostName, StringLiteral(TextA)),
                                PropertyAssignment(PathName, StringLiteral(TextAB))>>),
      ObjectLiteralExpression(<<PropertyAssignment(HostName, StringLiteral(TextA))>>),
      ObjectLiteralExpression(<<>>),
      ObjectLiteralExpression(<<ShorthandPropertyAssignment(PathName)>>),
      ObjectLiteralExpression(<<PropertyAssignment(PathName,
          ObjectLiteralExpression(<<PropertyAssignment(PathName, StringLiteral(TextA))>>))>>),
      ObjectLiteralExpression(<<PropertyAssignment(PathName, Identifier(<<"x">>))>>),
      ObjectLiteralExpression(<<PropertyAssignment(PathName,
          ArrayLiteralExpression(<<StringLiteral(TextA), Identifier(<<"x">>)>>))>>) }

ArgumentShapes ==
    {StringLiteral(t) : t \in {<<>>, TextA, TextAB}}
    \cup ArrayShapes \cup ObjectShapes
    \cup {Identifier(<<"x">>), NewExpression}

\* The argument lists of a Controller or verb decorator
PathArguments == {NoArgs} \cup {<<a>> : a \in ArgumentShapes}

InitPath ==
    \E base \in PathArguments, fragment \in PathArguments :
        InitRun(OneHandler(base, GetName, fragment, <<>>, StringType),
                [options |-> <<>>])

SpecPath == InitPath /\ [][NextRun]_vars

-----------------------------------------------------------------------------
(* C5 *)

IsStringArray(node) ==
    /\ node.kind = "ArrayLiteralExpression"
    /\ \A i \in 1..Len(node.elements) : node.elements[i].kind = "StringLiteral"

\* The path a string literal or an array of string literals stands for
LiteralText(node) ==
    IF node.kind = "StringLiteral" THEN node.text
    ELSE ArrayJoin([i \in 1..Len(node.elements) |-> node.elements[i].text], <<"/">>)

\* The `path` field of an object literal, when it has one with a value
PathFieldOf(node) ==
    LET named == {i \in 1..Len(node.properties) : node.properties[i].name = PathName}
        first == CHOOSE i \in named : \A j \in named : i <= j
    IN  IF named # {} /\ node.properties[first].kind = "PropertyAssignment"
        THEN <<node.properties[first].initializer>>
        ELSE <<>>

\* What base-path parsing is to give for an argument list: the literal text of
\* a string literal, the elements of an array of string literals joined with
\* '/', at controller level the `path` field of an object literal resolved so,
\* and the error 'unknown argument type' for every other shape
ExpectedPath(args, controllerLevel) ==
    IF args = <<>> THEN Return(<<>>)
    ELSE LET node == args[1]
         IN  IF node.kind = "StringLiteral" \/ IsStringArray(node)
             THEN Return(LiteralText(node))
             ELSE IF /\ node.kind = "ObjectLiteralExpression"
                     /\ controllerLevel
                     /\ PathFieldOf(node) # <<>>
                     /\ \/ PathFieldOf(node)[1].kind = "StringLiteral"
                        \/ IsStringArray(PathFieldOf(node)[1])
             THEN Return(LiteralText(PathFieldOf(node)[1]))
             ELSE Throw(UnknownArgumentType)

TheClass == sources[1].classes[1]
ControllerArgs == getDecorator(TheClass, ControllerName)[1].args
VerbArgs == getVerb(TheMethod)[1].args

\* getControllers has run on the class; getRequests has run on the handler
ControllerReached == pc # "controllers" \/ cursor.class = 1
HandlerReached == Parsed \/ (Failed /\ cursor.class = 1)

\* C5: base-path parsing returns the literal text for a string literal, the
\* elements joined with '/' for an array of string literals, and the resolved
\* `path` field for an object literal only at controller level; for every other
\* argument shape extraction fails with the fatal error 'unknown argument type'.
C5_LiteralPathOrUnknown ==
    /\ ControllerReached =>
          LET expected == ExpectedPath(ControllerArgs, TRUE)
          IN  IF expected.ok
              THEN cursor.class = 1 /\ controllers[1].baseUrl = expected.value
              ELSE Failed /\ cursor.class = 0 /\ error = <<expected.message>>
    /\ HandlerReached =>
          LET expected == ExpectedPath(VerbArgs, FALSE)
          IN  IF expected.ok
              THEN Parsed /\ TheRequest.url = expected.value
              ELSE Failed /\ error = <<expected.message>>

-----------------------------------------------------------------------------
(* SpecControllers: source files with several classes and methods           *)

UseGuardsName == <<"U", "s", "e", "G", "u", "a", "r", "d", "s">>
InjectableName == <<"I", "n", "j", "e", "c", "t", "a", "b", "l", "e">>

Handler(name, decorators) == Method(name, decorators, <<>>, StringType)

\* The method lists of a class: verbs among methods without one
MethodLists ==
    { <<>>,
      << Handler(<<"f">>, <<Decorator(GetName, NoArgs)>>),
         Handler(<<"g">>, <<>>),
         Handler(<<"h">>, <<Decorator(DeleteName, NoArgs)>>) >>,
      << Handler(<<"f">>, <<Decorator(UseGuardsName, NoArgs),
                            Decorator(PutName, NoArgs)>>),
         Handler(<<"g">>, <<Decorator(PostName, NoArgs)>>),
         Handler(<<"h">>, <<Decorator(UseGuardsName, NoArgs)>>),
         Handler(<<"k">>, <<Decorator(PatchName, NoArgs)>>) >> }

\* Classes with the Controller decorator and classes without it
ClassShapes ==
    {Class(<<"A">>, <<Decorator(ControllerName, NoArgs)>>, ms) : ms \in MethodLists}
    \cup { Class(<<"B">>, <<Decorator(InjectableName, NoArgs)>>,
                 <<Handler(<<"f">>, <<Decorator(GetName, NoArgs)>>)>>),
           Class(<<"D">>, <<>>, <<>>) }

BaseNames ==
    { UsersControllerTs,
      <<"a", "p", "p", ".", "t", "s">>,
      <<"a", ".", "d", ".", "t", "s">> }

SourceFiles ==
    {SourceFile(n, cs) : n \in BaseNames, cs \in SeqsUpTo(ClassShapes, MaxClasses)}

\* A second source file
SecondFiles ==
    { SourceFile(<<"b", ".", "c", ".", "t", "s">>,
          << Class(<<"A">>, <<Decorator(ControllerName, NoArgs)>>,
                 <<Handler(<<"f">>, <<Decorator(PostName, NoArgs)>>)>>) >>),
      SourceFile(<<"b", ".", "t", "s">>, <<Class(<<"D">>, <<>>, <<>>)>>) }

InitControllers ==
    \E first \in SourceFiles, rest \in {<<>>} \cup {<<g>> : g \in SecondFiles} :
        InitRun(<<first>> \o rest, [options |-> <<>>])

SpecControllers == InitControllers /\ [][NextRun]_vars

-----------------------------------------------------------------------------
(* C6 *)

\* name is the text up to the first '.' of baseName
UpToFirstDot(name, baseName) ==
    /\ Len(name) <= Len(baseName)
    /\ SubSeq(baseName, 1, Len(name)) = name
    /\ \A i \in 1..Len(name) : name[i] # "."
    /\ (Len(name) < Len(baseName) => baseName[Len(name) + 1] = ".")

\* The lower-case verb of a verb decorator
VerbOf(name) ==
    CASE name = GetName -> <<"g", "e", "t">>
      [] name = PostName -> <<"p", "o", "s", "t">>
      [] name = PutName -> <<"p", "u", "t">>
      [] name = PatchName -> <<"p", "a", "t", "c", "h">>
      [] name = DeleteName -> <<"d", "e", "l", "e", "t", "e">>

IsVerb(d) == d.name \in {GetName, PostName, PutName, PatchName, DeleteName}

\* The handlers of a class: its methods with a verb annotation
HandlersOf(type) ==
    SelectSeq(type.methods,
              LAMBDA m : \E i \in 1..Len(m.decorators) : IsVerb(m.decorators[i]))

\* The classes of the source files with the grouping annotation, in source
\* order, each with its file
RECURSIVE GroupedClasses(_)
GroupedClasses(files) ==
    IF files = <<>> THEN <<>>
    ELSE LET grouped == SelectSeq(Head(files).classes,
                            LAMBDA c : HasDecorator(c, ControllerName))
         IN  [i \in 1..Len(grouped) |-> [src |-> Head(files), type |-> grouped[i]]]
             \o GroupedClasses(Tail(files))

\* Controller k is the Controller of the k-th class with the grouping
\* annotation, with the Requests of the first n handlers of the class
ControllerMatches(k, n) ==
    LET expected == GroupedClasses(sources)[k]
        handlers == HandlersOf(expected.type)
    IN  /\ UpToFirstDot(controllers[k].name, expected.src.baseName)
        /\ Len(controllers[k].requests) = n
        /\ n <= Len(handlers)
        /\ \A i \in 1..n :
              /\ controllers[k].requests[i].func = handlers[i]
              /\ \E j \in 1..Len(handlers[i].decorators) :
                    /\ IsVerb(handlers[i].decorators[j])
                    /\ controllers[k].requests[i].method =
                           VerbOf(handlers[i].decorators[j].name)

\* C6: getControllers yields one Controller per class with the Controller
\* annotation, in source order, and none for the other classes; its name is
\* the source file's base name up to its first '.', whatever the class name;
\* its requests are the methods with a verb annotation, in declaration order,
\* with the verb in lower case.
C6_ControllerPerClass ==
    /\ Len(controllers) <= Len(GroupedClasses(sources))
    /\ \A k \in 1..(Len(controllers) - 1) :
          ControllerMatches(k, Len(HandlersOf(GroupedClasses(sources)[k].type)))
    /\ controllers # <<>> =>
          \E n \in 0..Len(controllers[Len(controllers)].requests) :
              /\ ControllerMatches(Len(controllers), n)
              /\ pc # "requests" =>
                    n = Len(HandlersOf(GroupedClasses(sources)[Len(controllers)].type))
    /\ pc = "modulesWritten" => Len(controllers) = Len(GroupedClasses(sources))

\* All controllers yielded for two source files, the first with a class without
\* the annotation before a class with it whose handlers stand among other
\* methods
C6_Witness ==
    /\ pc = "modulesWritten"
    /\ Len(sources) = 2
    /\ Len(controllers) = 2
    /\ Len(sources[1].classes) = 2
    /\ ~HasDecorator(sources[1].classes[1], ControllerName)
    /\ Len(sources[1].classes[2].methods) = 4
    /\ sources[1].baseName = UsersControllerTs

-----------------------------------------------------------------------------
(* SpecReturn: one handler whose declared return type takes every shape     *)

\* Types without type arguments
PlainTypes == {NamedType("void"), StringType, NamedType("User")}

\* Generic declarations with one type parameter, with the parameter's name
Wrappers ==
    { <<"Promise", "T">>, <<"Array", "T">>, <<"Observable", "T">>,
      <<"Box", "U">> }

RECURSIVE TypesOfDepth(_)
\* The types nested at most d deep
TypesOfDepth(d) ==
    IF d = 0 THEN PlainTypes
    ELSE PlainTypes
         \cup {GenericType(w[1], <<w[2]>>, <<a>>) :
                  w \in Wrappers, a \in TypesOfDepth(d - 1)}
         \cup {GenericType("Map", <<"K", "V">>, <<k, v>>) :
                  k \in PlainTypes, v \in PlainTypes}

InitReturn ==
    \E returnType \in TypesOfDepth(MaxTypeDepth) :
        InitRun(OneHandler(NoArgs, GetName, NoArgs, <<>>, returnType),
                [options |-> <<>>])

SpecReturn == InitReturn /\ [][NextRun]_vars

-----------------------------------------------------------------------------
(* C7 *)

\* The declared return type is Promise with exactly one type argument
IsPromise(type) == type.name = "Promise" /\ Len(type.typeArguments) = 1

\* C7: the Request's return type is the single type argument when the declared
\* return type of the handler is Promise with exactly one type argument, and
\* the declared type unchanged in every other case.
C7_UnwrapsPromiseOnly ==
    Parsed =>
        /\ IsPromise(TheMethod.returnType) =>
              TheRequest.res = TheMethod.returnType.typeArguments[1]
        /\ ~IsPromise(TheMethod.returnType) =>
              TheRequest.res = TheMethod.returnType

\* A parsed handler that declares Promise<Observable<...>>: one wrapper to
\* unwrap around one to keep
C7_Witness ==
    /\ Parsed
    /\ IsPromise(TheMethod.returnType)
    /\ TheMethod.returnType.typeArguments[1].name = "Observable"
    /\ TheRequest.res.name = "Observable"

-----------------------------------------------------------------------------
(* C1 *)

HasDoubleSlash(s) == \E i \in 1..(Len(s) - 1) : s[i] = "/" /\ s[i + 1] = "/"

\* A normalized path: leading '/', no '//', no trailing '/' unless it is '/'
Normalized(s) ==
    /\ Len(s) >= 1
    /\ s[1] = "/"
    /\ ~HasDoubleSlash(s)
    /\ (s[Len(s)] = "/" => s = <<"/">>)

UsersId == <<"/", "u", "s", "e", "r", "s", "/", ":", "i", "d">>

-----------------------------------------------------------------------------
(* C11 *)

RECURSIVE SpansText(_)
\* The text of template spans with each substitution ${e} written back as :e
SpansText(spans) ==
    IF spans = <<>> THEN <<>>
    ELSE <<":">> \o Head(spans).expression.text \o Head(spans).literal
            \o SpansText(Tail(spans))

\* The text of an emitted url with each substitution written back as :name
WrittenBack(expression) ==
    IF expression.kind = "TemplateExpression"
    THEN expression.head \o SpansText(expression.templateSpans)
    ELSE expression.text

\* C11: the emitted url of a Request with path Partials is an interpolated
\* string which, with each substitution ${name} written back as :name, is the
\* joined url template exactly (literal segments between, after and directly
\* next to placeholders included); without path Partials the emitted url is
\* the string literal of the template.
C11_TemplateRoundTrip ==
    Parsed =>
        /\ TheRequest.params.kind = "undefined"
              => TheUrlExpression = StringLiteral(TheTemplate)
        /\ TheRequest.params.kind # "undefined"
              => /\ TheUrlExpression.kind = "TemplateExpression"
                 /\ WrittenBack(TheUrlExpression) = TheTemplate

-----------------------------------------------------------------------------
(* Type declarations and the type output of the axios writer                *)

EnumKind == "EnumDeclaration"
InterfaceKind == "InterfaceDeclaration"
ClassKind == "ClassDeclaration"
TypeAliasKind == "TypeAliasDeclaration"

\* A property of an interface or class: typeNode is <<>> without annotation
Property(name, typeNode, hasQuestionToken) ==
    [name |-> name, typeNode |-> typeNode, hasQuestionToken |-> hasQuestionToken]

\* A heritage expression `expression<typeArguments>`: expressionKind is
\* Identifier or PropertyAccessExpression
Heritage(expressionKind, expression, typeArguments) ==
    [expressionKind |-> expressionKind, expression |-> expression,
     typeArguments |-> typeArguments]

\* The value of an enum member, of type string or number
StringValue(value) == [typeof |-> "string", value |-> value]
NumberValue(value) == [typeof |-> "number", value |-> value]

\* A declaration of a type source file. extends and implements hold the
\* heritage expressions, members the values of an enum's members
TypeDeclaration(kind, name, isExported, typeParameters, extends, implements, properties, members) ==
    [kind |-> kind, name |-> name, isExported |-> isExported,
     typeParameters |-> typeParameters,
     extends |-> extends, implements |-> implements,
     properties |-> properties, members |-> members]

\* The exported declarations of one kind of a source file, in source order
exportedOfKind(src, kind) ==
    SelectSeq(src, LAMBDA type : type.kind = kind /\ type.isExported)

RECURSIVE getTypes(_)
\* NestjsParser.getTypes: per type source file the exported enums, then
\* interfaces, then classes, then type aliases
getTypes(srcFiles) ==
    IF srcFiles = <<>> THEN <<>>
    ELSE exportedOfKind(Head(srcFiles), EnumKind)
            \o exportedOfKind(Head(srcFiles), InterfaceKind)
            \o exportedOfKind(Head(srcFiles), ClassKind)
            \o exportedOfKind(Head(srcFiles), TypeAliasKind)
            \o getTypes(Tail(srcFiles))

\* The declaration writeTypes adds to typesSrc for a declaration: its
\* structure, a class as an exported interface
addedDeclaration(type) ==
    IF type.kind = ClassKind
    THEN [kind |-> InterfaceKind, name |-> type.name, isExported |-> TRUE,
          typeParameters |-> type.typeParameters,
          extends |-> <<IF type.extends = <<>> THEN <<>> ELSE type.extends[1]>>
                          \o type.implements,
          implements |-> <<>>,
          properties |-> type.properties, members |-> <<>>]
    ELSE type

RECURSIVE writeTypes(_, _)
\* AxiosWriter.writeTypes: every declaration of getTypes added to typesSrc
writeTypes(declarations, added) ==
    IF declarations = <<>> THEN added
    ELSE writeTypes(Tail(declarations),
                    Append(added, addedDeclaration(Head(declarations))))

\* AxiosWriter.write after writeModules: the types are written and, when the
\* types file is another file, imported by name into the requests file
WriteTypes ==
    /\ pc = "modulesWritten"
    /\ typesSrc' = writeTypes(getTypes(typeSrcFiles), <<>>)
    /\ typeNames' = IF config.typesFile # config.requestsFile
                    THEN [i \in 1..Len(typesSrc') |-> typesSrc'[i].name]
                    ELSE <<>>
    /\ pc' = "typesWritten"
    /\ UNCHANGED <<typeSrcFiles, doc, types, warnings, stream, stdout, disk>>
    /\ UNCHANGED runVars
    /\ UNCHANGED joinVars
    /\ UNCHANGED tasks

\* The names the types of the emitted functions mention
usedIdentifiers ==
    UNION {UNION {Range(fn.returnType)
                    \cup UNION {Range(fn.parameters[p].type) :
                                   p \in 1..Len(fn.parameters)} :
                     fn \in Range(modules[m].functions)} :
              m \in 1..Len(modules)}

\* requestsSrc.fixUnusedIdentifiers() on the types import: the imported names
\* no emitted function mentions are removed
fixUnusedIdentifiers(namedImports) ==
    SelectSeq(namedImports, LAMBDA name : name \in usedIdentifiers)

\* requestsSrc and, when typesFile is another file, typesSrc, as printed or
\* saved
sourceFilesOf(cfg, mods, namedImports, declarations) ==
    <<[path |-> cfg.requestsFile, modules |-> mods, imports |-> namedImports,
       declarations |-> IF cfg.typesFile = cfg.requestsFile
                        THEN declarations ELSE <<>>]>>
    \o IF cfg.typesFile = cfg.requestsFile THEN <<>>
       ELSE <<[path |-> cfg.typesFile, modules |-> <<>>, imports |-> <<>>,
               declarations |-> declarations]>>

\* requestsSrc and typesSrc as the writer holds them after
\* fixUnusedIdentifiers
printedFiles ==
    sourceFilesOf(config, modules, fixUnusedIdentifiers(typeNames), typesSrc)

\* AxiosWriter.write, the last step: print to stdout or save
SaveOrPrint ==
    /\ pc = "typesWritten"
    /\ IF stream
       THEN /\ stdout' = stdout \o printedFiles
            /\ UNCHANGED disk
       ELSE /\ disk' = disk \o printedFiles
            /\ UNCHANGED stdout
    /\ pc' = "written"
    /\ UNCHANGED <<typeSrcFiles, typesSrc, typeNames, doc, types, warnings, stream>>
    /\ UNCHANGED runVars
    /\ UNCHANGED joinVars
    /\ UNCHANGED tasks

\* AxiosWriter.write
NextWrite == NextController \/ NextRequest \/ WriteTypes \/ SaveOrPrint

-----------------------------------------------------------------------------
(* SpecTypes: the axios writer on type source files that export every mix   *)
(* of declarations                                                          *)

MaxDeclarations == 3

StringKeyword == [kind |-> "StringKeyword"]

\* An enum, an interface, a class and a type alias, two of them named alike,
\* and an interface that is not exported
ExampleDeclarations ==
    { TypeDeclaration(EnumKind, "B", TRUE, <<>>, <<>>, <<>>, <<>>,
                      <<StringValue("x"), StringValue("y")>>),
      TypeDeclaration(InterfaceKind, "A", TRUE, <<>>, <<>>, <<>>,
                      <<Property("id", <<StringKeyword>>, FALSE)>>, <<>>),
      TypeDeclaration(ClassKind, "A", TRUE, <<>>, <<>>, <<>>,
                      <<Property("n", <<StringKeyword>>, TRUE)>>, <<>>),
      TypeDeclaration(TypeAliasKind, "B", TRUE, <<>>, <<>>, <<>>, <<>>, <<>>),
      TypeDeclaration(InterfaceKind, "A", FALSE, <<>>, <<>>, <<>>, <<>>, <<>>) }

\* Two type source files holding up to MaxDeclarations declarations together
TypeSourceFiles ==
    UNION {{<<SubSeq(ds, 1, k), SubSeq(ds, k + 1, Len(ds))>> : k \in 0..Len(ds)} :
              ds \in SeqsUpTo(ExampleDeclarations, MaxDeclarations)}

\* dest: one file for requests and types, or one file for each
Destinations ==
    {[options |-> <<>>, requestsFile |-> "api.ts", typesFile |-> "api.ts"],
     [options |-> <<>>, requestsFile |-> "api.ts", typesFile |-> "types.ts"]}

\* A handler returning A
ReturnsA == OneHandler(NoArgs, GetName, NoArgs, <<>>, NamedType("A"))

InitTypes ==
    \E typeFiles \in TypeSourceFiles, cfg \in Destinations, strm \in BOOLEAN :
        InitWrite(ReturnsA, cfg, typeFiles, strm)

SpecTypes == InitTypes /\ [][NextWrite]_vars

-----------------------------------------------------------------------------
(* C12 *)

\* No two elements of a sequence are equal
Distinct(seq) == \A i, j \in 1..Len(seq) : seq[i] = seq[j] => i = j

\* C12: once writeTypes has processed every exported declaration of every
\* type source file, no two declarations added to the types output share a
\* name, and no two names of the types import are the same, also when several
\* source files export the same name.
C12_TypesDeduplicated ==
    pc \in {"typesWritten", "written"} =>
        /\ Distinct([i \in 1..Len(typesSrc) |-> typesSrc[i].name])
        /\ Distinct(typeNames)

-----------------------------------------------------------------------------
(* OpenAPIWriter: the schema resolvers                                      *)

\* Schema objects
TypeSchema(type) == [kind |-> "Type", type |-> type]
ArraySchema(items) == [kind |-> "Array", type |-> "array", items |-> items]
DateTimeSchema == [kind |-> "Format", type |-> "string", format |-> "date-time"]
AnyOfSchema(anyOf) == [kind |-> "AnyOf", anyOf |-> anyOf]
AllOfSchema(allOf) == [kind |-> "AllOf", allOf |-> allOf]
ReferenceObject(ref) == [kind |-> "Reference", ref |-> ref]
ObjectSchema(properties) ==
    [kind |-> "Object", type |-> "object", properties |-> properties]
EnumSchema(type, enum) == [kind |-> "Enum", type |-> type, enum |-> enum]
\* The schema {}
EmptySchema == [kind |-> "Empty"]
\* No schema: the resolver returned undefined
UndefinedSchema == [kind |-> "undefined"]

\* Type nodes. A parameter or property without annotation has no type node
KeywordNode(kind) == [kind |-> kind]
ArrayTypeNode(elementTypeNode) ==
    [kind |-> "ArrayType", elementTypeNode |-> elementTypeNode]
UnionTypeNode(typeNodes) == [kind |-> "UnionType", typeNodes |-> typeNodes]
\* typeNameKind is Identifier or QualifiedName
TypeReferenceNode(typeNameKind, text, typeArguments) ==
    [kind |-> "TypeReference", typeNameKind |-> typeNameKind, text |-> text,
     typeArguments |-> typeArguments]

SchemasPrefix == "#/components/schemas/"

\* What a resolver returns: a schema and the lines it wrote with console.warn
Resolved(schema, warned) == [ok |-> TRUE, schema |-> schema, warnings |-> warned]

UnknownNodeWarning(node) == <<"Unknown node found", node.kind>>
GenericTypeWarning(text) == <<"Generic type is not supported yet">> \o text
DuplicateTypesWarning(typeName) == <<"Duplicate types found", typeName>>

\* resolveRefType giving an object schema in place of the reference
ResolveRefTypeInlined(typeName) ==
    IF typeName = <<"Date">> THEN DateTimeSchema
    ELSE ObjectSchema(<<>>)

\* OpenAPIWriter.resolveRefType
resolveRefType(typeName) ==
    IF typeName = <<"Date">> THEN DateTimeSchema
    ELSE ReferenceObject(<<SchemasPrefix>> \o typeName)

RECURSIVE resolveAll(_, _, _)
\* nodes.map((e) => resolve(e)): results holds resolve(e) of each node in
\* order, the schemas so far in done, the warnings so far in warned; the
\* first exception ends the map
resolveAll(results, done, warned) ==
    IF results = <<>> THEN Resolved(done, warned)
    ELSE LET got == Head(results)
         IN  IF got.ok
             THEN resolveAll(Tail(results), Append(done, got.schema),
                             warned \o got.warnings)
             ELSE got

RECURSIVE resolveNodeSchema(_, _)
\* OpenAPIWriter.resolveNodeSchema on parameter.getTypeNode() or
\* prop.getTypeNode(): node is <<>> or <<type node>>, scope holds the names
\* of the type parameters in scope
resolveNodeSchema(node, scope) ==
    IF node = <<>> THEN Throw(TypeError)
    ELSE LET n == node[1]
         IN  CASE n.kind \in {"NumberKeyword", "BigIntKeyword", "NumericLiteral"} ->
                    Resolved(TypeSchema("number"), <<>>)
               [] n.kind \in {"StringKeyword", "StringLiteral"} ->
                    Resolved(TypeSchema("string"), <<>>)
               [] n.kind \in {"BooleanKeyword", "TrueKeyword", "FalseKeyword"} ->
                    Resolved(TypeSchema("boolean"), <<>>)
               [] n.kind = "ArrayType" ->
                    LET items == resolveNodeSchema(<<n.elementTypeNode>>, scope)
                    IN  IF items.ok
                        THEN Resolved(ArraySchema(items.schema), items.warnings)
                        ELSE items
               [] n.kind = "TemplateLiteralType" ->
                    Resolved(TypeSchema("string"), <<>>)
               [] n.kind = "UnionType" ->
                    LET each == [i \in 1..Len(n.typeNodes) |->
                                   resolveNodeSchema(<<n.typeNodes[i]>>, scope)]
                        anyOf == resolveAll(each, <<>>, <<>>)
                    IN  IF anyOf.ok
                        THEN Resolved(AnyOfSchema(anyOf.schema), anyOf.warnings)
                        ELSE anyOf
               [] n.kind = "TypeReference" ->
                    IF n.typeNameKind # "Identifier" THEN Throw(TypeError)
                    ELSE IF n.typeArguments = <<>>
                    THEN IF n.text \in scope
                         THEN Resolved(EmptySchema, <<>>)
                         ELSE Resolved(resolveRefType(<<n.text>>), <<>>)
                    ELSE Resolved(EmptySchema, <<UnknownNodeWarning(n)>>)
               [] OTHER -> Resolved(EmptySchema, <<UnknownNodeWarning(n)>>)

\* A type of the type checker: flags are the tests of ts-morph's Type that
\* hold of it, members the constituents of a union or intersection
TypeOf(name, flags, typeParameters, typeArguments, members) ==
    [name |-> name, flags |-> flags, typeParameters |-> typeParameters,
     typeArguments |-> typeArguments, members |-> members]

\* Type.isArray(): the instantiation Array<T>
isArray(type) == type.name = "Array" /\ Len(type.typeArguments) = 1

RECURSIVE resolveTypeSchema(_)
\* OpenAPIWriter.resolveTypeSchema
resolveTypeSchema(type) ==
    IF type.flags \cap {"Undefined", "Null"} # {}
    THEN Resolved(UndefinedSchema, <<>>)
    ELSE IF type.flags \cap {"String", "StringLiteral"} # {}
    THEN Resolved(TypeSchema("string"), <<>>)
    ELSE IF type.flags \cap {"Number", "NumberLiteral"} # {}
    THEN Resolved(TypeSchema("number"), <<>>)
    ELSE IF type.flags \cap {"Boolean", "BooleanLiteral"} # {}
    THEN Resolved(TypeSchema("boolean"), <<>>)
    ELSE IF isArray(type)
    THEN LET items == resolveTypeSchema(type.typeArguments[1])
         IN  Resolved(ArraySchema(items.schema), items.warnings)
    ELSE IF type.flags \cap {"Class", "Interface", "Enum"} # {}
    THEN Resolved(resolveRefType(typeText(type)), <<>>)
    ELSE IF "Union" \in type.flags
    THEN LET each == [i \in 1..Len(type.members) |->
                       resolveTypeSchema(type.members[i])]
             anyOf == resolveAll(each, <<>>, <<>>)
         IN  Resolved(AnyOfSchema(anyOf.schema), anyOf.warnings)
    ELSE LET warned == IF getTargetType(type) # <<>>
                       THEN <<GenericTypeWarning(typeText(type))>>
                       ELSE <<>>
         IN  IF "Intersection" \in type.flags
             THEN LET each == [i \in 1..Len(type.members) |->
                               resolveTypeSchema(type.members[i])]
                      allOf == resolveAll(each, <<>>, <<>>)
                  IN  Resolved(AllOfSchema(allOf.schema),
                               warned \o allOf.warnings)
             ELSE IF "Object" \in type.flags
             THEN Resolved(TypeSchema("object"), warned)
             ELSE Resolved(EmptySchema, warned)

-----------------------------------------------------------------------------
(* OpenAPIWriter: the component schemas                                     *)

\* t.getText() of a heritage expression
heritageText(t) ==
    <<t.expression>>
    \o IF t.typeArguments = <<>> THEN <<>>
       ELSE <<"<">> \o ArrayJoin([i \in 1..Len(t.typeArguments) |->
                                     <<t.typeArguments[i]>>], <<", ">>)
                \o <<">">>

\* typeof values[0]
typeofFirst(values) == IF values = <<>> THEN "undefined" ELSE values[1].typeof

\* OpenAPIWriter.resolveEnumComponent
resolveEnumComponent(type) ==
    EnumSchema(IF typeofFirst(type.members) = "string" THEN "string" ELSE "number",
               type.members)

RECURSIVE reduceProperties(_, _, _, _)
\* The reduce of resolveObjectSchema: acc[prop.getName()] = {...schema}
reduceProperties(properties, scope, acc, warned) ==
    IF properties = <<>> THEN Resolved(ObjectSchema(acc), warned)
    ELSE LET got == resolveNodeSchema(Head(properties).typeNode, scope)
         IN  IF got.ok
             THEN reduceProperties(Tail(properties), scope,
                                   mapSet(acc, Head(properties).name, got.schema),
                                   warned \o got.warnings)
             ELSE got

\* OpenAPIWriter.resolveObjectSchema
resolveObjectSchema(type) ==
    reduceProperties(type.properties, Range(type.typeParameters), <<>>, <<>>)

\* The supertypes of a class (extends first, then implements) or interface
supertypesOf(type) ==
    IF type.kind = ClassKind THEN type.extends \o type.implements
    ELSE type.extends

\* resolveClassComponent returning the object of the own properties whatever
\* the supertypes
ResolveClassComponentSelf(type) == resolveObjectSchema(type)

\* OpenAPIWriter.resolveClassComponent and resolveInterfaceComponent
resolveClassComponent(type) ==
    LET supertypes == supertypesOf(type)
        self == resolveObjectSchema(type)
    IN  IF ~self.ok THEN self
        ELSE IF supertypes # <<>>
        THEN Resolved(AllOfSchema(
                          [i \in 1..Len(supertypes) |->
                              ReferenceObject(<<SchemasPrefix>>
                                              \o heritageText(supertypes[i]))]
                          \o <<self.schema>>),
                      self.warnings)
        ELSE self

\* A Map or object as the sequence of its entries: has, get
mapHas(map, k) == \E i \in 1..Len(map) : map[i][1] = k
mapGet(map, k) == map[CHOOSE i \in 1..Len(map) : map[i][1] = k][2]

\* The switch of addComponent: the schema of a declaration, none for a type
\* alias
componentSchema(type) ==
    CASE type.kind = EnumKind -> Resolved(resolveEnumComponent(type), <<>>)
      [] type.kind \in {InterfaceKind, ClassKind} -> resolveClassComponent(type)
      [] OTHER -> Resolved(UndefinedSchema, <<>>)

-----------------------------------------------------------------------------
(* OpenAPIWriter: parameters, responses and body of an operation            *)

\* The names resolveProtoChain yields for a declaration directly: its extends
\* expressions that are identifiers naming a class or interface of the catalog
superNames(type, catalog) ==
    {type.extends[i].expression : i \in
        {j \in 1..Len(type.extends) :
            /\ type.extends[j].expressionKind = "Identifier"
            /\ mapHas(catalog, type.extends[j].expression)
            /\ mapGet(catalog, type.extends[j].expression).kind
                  \in {InterfaceKind, ClassKind}}}

RECURSIVE namesReached(_, _, _)
\* The names reached from the names in todo by following superNames
namesReached(todo, seen, catalog) ==
    IF todo = {} THEN seen
    ELSE LET next == UNION {superNames(mapGet(catalog, n), catalog) : n \in todo}
         IN  namesReached(next \ (seen \cup todo), seen \cup todo, catalog)

\* The supertype references below a declaration come back to a declaration
\* already on the chain: the generators recurse without end
recursesForever(type, catalog) ==
    \E n \in namesReached(superNames(type, catalog), {}, catalog) :
        n \in namesReached(superNames(mapGet(catalog, n), catalog), {}, catalog)

\* The declaration an extends expression names in the catalog, if it is a
\* class or an interface
superTypeOf(ext, catalog) ==
    IF /\ ext.expressionKind = "Identifier"
       /\ mapHas(catalog, ext.expression)
       /\ mapGet(catalog, ext.expression).kind \in {InterfaceKind, ClassKind}
    THEN <<mapGet(catalog, ext.expression)>>
    ELSE <<>>

RECURSIVE resolveProtoChain(_, _)
RECURSIVE protoChainOf(_, _)
\* for (const ext of exts): the supertype and then its own chain
protoChainOf(exts, catalog) ==
    IF exts = <<>> THEN <<>>
    ELSE LET superType == superTypeOf(Head(exts), catalog)
         IN  (IF superType = <<>> THEN <<>>
              ELSE superType \o resolveProtoChain(superType[1], catalog))
             \o protoChainOf(Tail(exts), catalog)

\* OpenAPIWriter.resolveProtoChain
resolveProtoChain(type, catalog) == protoChainOf(type.extends, catalog)

RECURSIVE resolvePropertiesRecursively(_, _)
RECURSIVE propertiesOfAll(_, _)
\* for (const superType of ...) yield* resolvePropertiesRecursively(superType)
propertiesOfAll(superTypes, catalog) ==
    IF superTypes = <<>> THEN <<>>
    ELSE resolvePropertiesRecursively(Head(superTypes), catalog)
            \o propertiesOfAll(Tail(superTypes), catalog)

\* OpenAPIWriter.resolvePropertiesRecursively: each property with the type
\* parameters in scope at its declaration
resolvePropertiesRecursively(type, catalog) ==
    IF type.kind \in {InterfaceKind, ClassKind}
    THEN [i \in 1..Len(type.properties) |->
             [prop |-> type.properties[i], scope |-> Range(type.typeParameters)]]
         \o propertiesOfAll(resolveProtoChain(type, catalog), catalog)
    ELSE <<>>

ParameterObject(name, in, required, schema) ==
    [name |-> name, in |-> in, required |-> required, schema |-> schema]

RangeError == "RangeError"

\* The name of the declared type of a Whole parameter: the identifier of a
\* type reference, <<>> for another type node
wholeTypeName(typeNode) ==
    IF typeNode.kind = "TypeReference" /\ typeNode.typeNameKind = "Identifier"
    THEN <<typeNode.text>>
    ELSE <<>>

RECURSIVE partialParameters(_, _, _, _, _)
\* createParamters for a Partial sequence
partialParameters(in, items, scope, done, warned) ==
    IF items = <<>> THEN Resolved(done, warned)
    ELSE LET got == resolveNodeSchema(Head(items).parameter.typeNode, scope)
         IN  IF got.ok
             THEN partialParameters(in, Tail(items), scope,
                      Append(done, ParameterObject(Head(items).property, in,
                                       ~Head(items).parameter.optional, got.schema)),
                      warned \o got.warnings)
             ELSE got

RECURSIVE wholeParameters(_, _, _, _)
\* createParamters for the properties of the declaration of a Whole parameter
wholeParameters(in, props, done, warned) ==
    IF props = <<>> THEN Resolved(done, warned)
    ELSE LET got == resolveNodeSchema(Head(props).prop.typeNode, Head(props).scope)
         IN  IF got.ok
             THEN wholeParameters(in, Tail(props),
                      Append(done, ParameterObject(Head(props).prop.name, in,
                                       ~Head(props).prop.hasQuestionToken, got.schema)),
                      warned \o got.warnings)
             ELSE got

\* OpenAPIWriter.createParamters
createParamters(in, request, binding, catalog) ==
    IF binding.kind = "partials"
    THEN partialParameters(in, binding.items, Range(request.func.typeParameters),
                           <<>>, <<>>)
    ELSE IF binding.parameter.typeNode = <<>> THEN Throw(TypeError)
    ELSE LET typeName == wholeTypeName(binding.parameter.typeNode[1])
         IN  IF typeName = <<>> THEN Resolved(<<>>, <<>>)
             ELSE IF ~mapHas(catalog, typeName[1]) THEN Throw(TypeError)
             ELSE IF recursesForever(mapGet(catalog, typeName[1]), catalog)
             THEN Throw(RangeError)
             ELSE wholeParameters(in,
                      resolvePropertiesRecursively(mapGet(catalog, typeName[1]),
                                                   catalog),
                      <<>>, <<>>)

\* OpenAPIWriter.resolveParameters: the path parameters, then the query
\* parameters
resolveParameters(request, catalog) ==
    LET path == IF request.params.kind = "undefined" THEN Resolved(<<>>, <<>>)
                ELSE createParamters("path", request, request.params, catalog)
        query == IF request.query.kind = "undefined" THEN Resolved(<<>>, <<>>)
                 ELSE createParamters("query", request, request.query, catalog)
    IN  IF ~path.ok THEN path
        ELSE IF ~query.ok THEN query
        ELSE Resolved(path.schema \o query.schema, path.warnings \o query.warnings)

\* OpenAPIWriter.resolveResponses: the responses by status
resolveResponses(request) ==
    LET got == resolveTypeSchema(request.res)
    IN  Resolved(<<<<"200", [content |-> [schema |-> got.schema]]>>>>, got.warnings)

\* OpenAPIWriter.resolveBody: the request body, none unless the body binding
\* is a Whole parameter
resolveBody(request) ==
    IF request.data.kind # "whole" THEN Resolved(<<>>, <<>>)
    ELSE LET got == resolveNodeSchema(request.data.parameter.typeNode,
                                      Range(request.func.typeParameters))
         IN  IF got.ok
             THEN Resolved(<<[content |-> [schema |-> got.schema]]>>, got.warnings)
             ELSE got

\* The operation object addPath builds
operationOf(request, controller, catalog) ==
    LET parameters == resolveParameters(request, catalog)
        responses == resolveResponses(request)
        requestBody == resolveBody(request)
    IN  IF ~parameters.ok THEN parameters
        ELSE IF ~requestBody.ok THEN requestBody
        ELSE Resolved([parameters |-> parameters.schema,
                       responses |-> responses.schema,
                       requestBody |-> requestBody.schema,
                       tags |-> <<controller.name>>],
                      parameters.warnings \o responses.warnings
                          \o requestBody.warnings)

\* setPath assigning a new path item with the one operation
SetPathFresh(paths, u, method, path) ==
    mapSet(paths, u, mapSet(<<>>, method, path))

\* doc.paths[url][method] = path
setPath(paths, u, method, path) ==
    mapSet(paths, u,
           mapSet(IF mapHas(paths, u) THEN mapGet(paths, u) ELSE <<>>, method, path))

-----------------------------------------------------------------------------
(* OpenAPIWriter.write                                                      *)

\* OpenAPIWriter.addComponent for the next declaration of parser.getTypes()
AddComponent ==
    /\ pc = "components"
    /\ IF cursor.type >= Len(getTypes(typeSrcFiles))
       THEN /\ pc' = "tags"
            /\ UNCHANGED <<cursor, doc, types, warnings, error>>
       ELSE LET type == getTypes(typeSrcFiles)[cursor.type + 1]
                got == componentSchema(type)
            IN  IF ~got.ok
                THEN /\ error' = <<got.message>>
                     /\ pc' = "failed"
                     /\ UNCHANGED <<cursor, doc, types, warnings>>
                ELSE /\ cursor' = [cursor EXCEPT !.type = @ + 1]
                     /\ pc' = "components"
                     /\ UNCHANGED error
                     /\ IF got.schema = UndefinedSchema
                        THEN /\ warnings' = warnings \o got.warnings
                             /\ UNCHANGED <<doc, types>>
                        ELSE /\ warnings' = warnings \o got.warnings
                                   \o IF mapHas(doc.schemas, type.name)
                                      THEN <<DuplicateTypesWarning(type.name)>>
                                      ELSE <<>>
                             /\ doc' = [doc EXCEPT
                                   !.schemas = mapSet(@, type.name, got.schema)]
                             /\ types' = mapSet(types, type.name, type)
    /\ UNCHANGED <<sources, config, controllers, modules, typeSrcFiles,
                   typesSrc, typeNames, stream, stdout, disk>>
    /\ UNCHANGED joinVars
    /\ UNCHANGED tasks

\* docs[0]?.getCommentText()
commentText(docs) == IF docs = <<>> THEN "" ELSE docs[1]

\* One step of `for (const controller of parser.getControllers())`:
\* getControllers runs to its next yield and addTag is called
AddTag ==
    /\ pc = "tags"
    /\ IF ControllersAhead = {}
       THEN /\ pc' = "document"
            /\ UNCHANGED <<cursor, controllers, doc, error>>
       ELSE LET fc == CHOOSE a \in ControllersAhead : \A b \in ControllersAhead :
                          a[1] < b[1] \/ (a[1] = b[1] /\ a[2] <= b[2])
                src == sources[fc[1]]
                type == src.classes[fc[2]]
                got == getController(src, type, getDecorator(type, ControllerName)[1])
            IN  IF got.ok
                THEN /\ controllers' = Append(controllers, got.value)
                     /\ doc' = IF commentText(got.value.docs) # ""
                               THEN [doc EXCEPT !.tags = Append(@,
                                        [name |-> got.value.name,
                                         description |-> commentText(got.value.docs)])]
                               ELSE doc
                     /\ cursor' = [cursor EXCEPT !.file = fc[1], !.class = fc[2],
                                                 !.method = 0]
                     /\ pc' = "paths"
                     /\ UNCHANGED error
                ELSE /\ error' = <<got.message>>
                     /\ pc' = "failed"
                     /\ UNCHANGED <<cursor, controllers, doc>>
    /\ UNCHANGED <<sources, config, modules, typeSrcFiles, typesSrc, typeNames,
                   types, warnings, stream, stdout, disk>>
    /\ UNCHANGED joinVars
    /\ UNCHANGED tasks

\* One step of `for (const request of controller.requests)`: getRequests runs
\* to its next yield and addPath is called
AddPath ==
    /\ pc = "paths"
    /\ IF RequestsAhead = {}
       THEN /\ pc' = "tags"
            /\ UNCHANGED <<cursor, controllers, doc, warnings, error>>
       ELSE LET m == CHOOSE a \in RequestsAhead : \A b \in RequestsAhead : a <= b
                method == sources[cursor.file].classes[cursor.class].methods[m]
                got == getRequest(method, getVerb(method)[1])
                controller == controllers[Len(controllers)]
                path == operationOf(got.value, controller, types)
            IN  IF ~got.ok
                THEN /\ error' = <<got.message>>
                     /\ pc' = "failed"
                     /\ UNCHANGED <<cursor, controllers, doc, warnings>>
                ELSE IF ~path.ok
                THEN /\ error' = <<path.message>>
                     /\ pc' = "failed"
                     /\ UNCHANGED <<cursor, controllers, doc, warnings>>
                ELSE /\ controllers' = SetLast(controllers,
                            [controller EXCEPT !.requests = Append(@, got.value)])
                     /\ doc' = [doc EXCEPT !.paths =
                            setPath(@, resolveUrl(got.value.url, controller.baseUrl),
                                    got.value.method, path.schema)]
                     /\ warnings' = warnings \o path.warnings
                     /\ cursor' = [cursor EXCEPT !.method = m]
                     /\ pc' = "paths"
                     /\ UNCHANGED error
    /\ UNCHANGED <<sources, config, modules, typeSrcFiles, typesSrc, typeNames,
                   types, stream, stdout, disk>>
    /\ UNCHANGED joinVars
    /\ UNCHANGED tasks

\* The value null of JSON
NullJson == [kind |-> "null"]

RECURSIVE stringifySchema(_)
\* JSON.stringify on a schema: a property holding undefined is left out, an
\* array element holding undefined becomes null
stringifySchema(schema) ==
    LET element(e) == IF e = UndefinedSchema THEN NullJson ELSE stringifySchema(e)
    IN  CASE schema.kind = "Array" ->
                IF schema.items = UndefinedSchema
                THEN [kind |-> "Array", type |-> "array"]
                ELSE ArraySchema(stringifySchema(schema.items))
          [] schema.kind = "AnyOf" ->
                AnyOfSchema([i \in 1..Len(schema.anyOf) |-> element(schema.anyOf[i])])
          [] schema.kind = "AllOf" ->
                AllOfSchema([i \in 1..Len(schema.allOf) |-> element(schema.allOf[i])])
          [] schema.kind = "Object" ->
                ObjectSchema([i \in 1..Len(schema.properties) |->
                                 <<schema.properties[i][1],
                                   stringifySchema(schema.properties[i][2])>>])
          [] OTHER -> schema

\* JSON.stringify on a media type object { schema }
stringifyContent(content) ==
    IF content.schema = UndefinedSchema THEN [content |-> <<>>]
    ELSE [content |-> <<stringifySchema(content.schema)>>]

\* JSON.stringify on an operation: parameters and requestBody are left out
\* when undefined
stringifyOperation(path) ==
    [parameters |-> [i \in 1..Len(path.parameters) |->
                        [path.parameters[i] EXCEPT !.schema = stringifySchema(@)]],
     responses |-> [i \in 1..Len(path.responses) |->
                       <<path.responses[i][1],
                         stringifyContent(path.responses[i][2].content)>>],
     requestBody |-> [i \in 1..Len(path.requestBody) |->
                         stringifyContent(path.requestBody[i].content)],
     tags |-> path.tags]

\* JSON.stringify(this.doc, null, 2)
stringify(document) ==
    [paths |-> [i \in 1..Len(document.paths) |->
                   <<document.paths[i][1],
                     [j \in 1..Len(document.paths[i][2]) |->
                         <<document.paths[i][2][j][1],
                           stringifyOperation(document.paths[i][2][j][2])>>]>>],
     schemas |-> [i \in 1..Len(document.schemas) |->
                     <<document.schemas[i][1],
                       stringifySchema(document.schemas[i][2])>>],
     tags |-> document.tags]

\* OpenAPIWriter.write, the last step: the document is printed to stdout when
\* stream is set, and written to dest
WriteDocument ==
    /\ pc = "document"
    /\ stdout' = IF stream THEN Append(stdout, stringify(doc)) ELSE stdout
    /\ disk' = Append(disk, [path |-> config.dest, text |-> stringify(doc)])
    /\ pc' = "written"
    /\ UNCHANGED <<typeSrcFiles, typesSrc, typeNames, doc, types, warnings, stream>>
    /\ UNCHANGED runVars
    /\ UNCHANGED joinVars
    /\ UNCHANGED tasks

\* OpenAPIWriter.write
NextDocument == AddComponent \/ AddTag \/ AddPath \/ WriteDocument

\* The state before OpenAPIWriter.write(strm) is called
InitDocument(srcs, typeFiles, strm) ==
    /\ pc = "components"
    /\ sources = srcs
    /\ config = [dest |-> "openapi.json"]
    /\ cursor = [file |-> 1, class |-> 0, method |-> 0, type |-> 0]
    /\ controllers = <<>>
    /\ modules = <<>>
    /\ error = <<>>
    /\ baseUrl = <<>>
    /\ url = <<>>
    /\ axiosUrl = <<>>
    /\ docUrl = <<>>
    /\ typeSrcFiles = typeFiles
    /\ typesSrc = <<>>
    /\ typeNames = <<>>
    /\ doc = EmptyDocument
    /\ types = <<>>
    /\ warnings = <<>>
    /\ stream = strm
    /\ stdout = <<>>
    /\ disk = <<>>
    /\ tasks = <<>>

-----------------------------------------------------------------------------
(* SpecEnums: the OpenAPI writer on an exported enum with every mix of      *)
(* string and number members                                                *)

MaxMembers == 3

\* The values of enum members: a string and two numbers
MemberValues == {StringValue("a"), NumberValue("1"), NumberValue("2")}

EnumE(members) ==
    TypeDeclaration(EnumKind, "E", TRUE, <<>>, <<>>, <<>>, <<>>, members)

\* A handler without parameters returning string
SimpleHandler ==
    OneHandler(NoArgs, GetName, NoArgs, <<>>,
               TypeOf("string", {"String"}, <<>>, <<>>, <<>>))

InitEnums ==
    \E members \in SeqsUpTo(MemberValues, MaxMembers), strm \in BOOLEAN :
        InitDocument(SimpleHandler, <<<<EnumE(members)>>>>, strm)

SpecEnums == InitEnums /\ [][NextDocument]_vars

-----------------------------------------------------------------------------
(* C18 *)

\* The enum E has been registered
EnumRegistered == mapHas(doc.schemas, "E")

TheEnum == typeSrcFiles[1][1]

\* The literal kinds of the members of the enum
MemberKinds == {TheEnum.members[i].typeof : i \in 1..Len(TheEnum.members)}

\* C18: the component schema of an enum lists the member values in
\* declaration order; its type is the members' literal kind when they all
\* share one kind, and 'string' when their kinds are mixed.
C18_EnumSchema ==
    EnumRegistered =>
        LET schema == mapGet(doc.schemas, "E")
        IN  /\ schema.enum = TheEnum.members
            /\ \A kind \in {"string", "number"} :
                  MemberKinds = {kind} => schema.type = kind
            /\ Cardinality(MemberKinds) > 1 => schema.type = "string"

-----------------------------------------------------------------------------
(* SpecComponents: the OpenAPI writer on type source files exporting every  *)
(* mix of enums, interfaces, classes and type aliases, some named alike     *)

NumberKeyword == [kind |-> "NumberKeyword"]

Extends(name) == Heritage("Identifier", name, <<>>)

\* class B { b: string }, interface A extends B { a?: number },
\* class A extends B { n: string }, interface C extends A, B {},
\* enum A { 'x' }, type C = ..., class C extends A { c } with a property
\* without type annotation, class D implements B { d: string }
ComponentDeclarations ==
    { TypeDeclaration(ClassKind, "B", TRUE, <<>>, <<>>, <<>>,
                      <<Property("b", <<StringKeyword>>, FALSE)>>, <<>>),
      TypeDeclaration(InterfaceKind, "A", TRUE, <<>>, <<Extends("B")>>, <<>>,
                      <<Property("a", <<NumberKeyword>>, TRUE)>>, <<>>),
      TypeDeclaration(ClassKind, "A", TRUE, <<>>, <<Extends("B")>>, <<>>,
                      <<Property("n", <<StringKeyword>>, FALSE)>>, <<>>),
      TypeDeclaration(InterfaceKind, "C", TRUE, <<>>,
                      <<Extends("A"), Extends("B")>>, <<>>, <<>>, <<>>),
      TypeDeclaration(EnumKind, "A", TRUE, <<>>, <<>>, <<>>, <<>>,
                      <<StringValue("x")>>),
      TypeDeclaration(TypeAliasKind, "C", TRUE, <<>>, <<>>, <<>>, <<>>, <<>>),
      TypeDeclaration(ClassKind, "C", TRUE, <<>>, <<Extends("A")>>, <<>>,
                      <<Property("c", <<>>, FALSE)>>, <<>>),
      TypeDeclaration(ClassKind, "D", TRUE, <<>>, <<>>, <<Extends("B")>>,
                      <<Property("d", <<StringKeyword>>, FALSE)>>, <<>>) }

\* Two type source files holding up to MaxDeclarations declarations together
ComponentSourceFiles ==
    UNION {{<<SubSeq(ds, 1, k), SubSeq(ds, k + 1, Len(ds))>> : k \in 0..Len(ds)} :
              ds \in SeqsUpTo(ComponentDeclarations, MaxDeclarations)}

InitComponents ==
    \E typeFiles \in ComponentSourceFiles :
        InitDocument(SimpleHandler, typeFiles, FALSE)

SpecComponents == InitComponents /\ [][NextDocument]_vars

-----------------------------------------------------------------------------
(* C16 *)

\* The exported declarations of the type source files, in source order
ExportedDeclarations ==
    LET all == typeSrcFiles[1] \o typeSrcFiles[2]
    IN  SelectSeq(all, LAMBDA d : d.isExported)

\* The declarations addComponent has been called on so far
Registered == SubSeq(getTypes(typeSrcFiles), 1, cursor.type)

\* The last of the registered declarations with a name
LastRegistered(name) ==
    Registered[CHOOSE i \in 1..Len(Registered) :
                  /\ Registered[i].name = name
                  /\ \A j \in 1..Len(Registered) : Registered[j].name = name => j <= i]

\* The number of registrations whose name an earlier registration had
Repeated ==
    Cardinality({i \in 1..Len(Registered) :
                    \E j \in 1..(i - 1) : Registered[j].name = Registered[i].name})

\* The number of warnings about a duplicate name
DuplicateWarnings ==
    Cardinality({i \in 1..Len(warnings) : warnings[i][1] = "Duplicate types found"})

\* C16: after registering any sequence of exported declarations,
\* components.schemas holds exactly one entry per distinct registered name,
\* with the schema of the last declaration registered with that name; each
\* registration of a name already present emits a warning and the run is
\* never aborted; and every exported declaration (enum, interface, class,
\* alias) is resolved and registered.
C16_ComponentsRegistered ==
    /\ pc # "failed"
    /\ {doc.schemas[i][1] : i \in 1..Len(doc.schemas)}
          = {Registered[i].name : i \in 1..Len(Registered)}
    /\ \A i, j \in 1..Len(doc.schemas) :
          doc.schemas[i][1] = doc.schemas[j][1] => i = j
    /\ \A i \in 1..Len(doc.schemas) :
          doc.schemas[i][2] = componentSchema(LastRegistered(doc.schemas[i][1])).schema
    /\ DuplicateWarnings = Repeated
    /\ pc \notin {"components", "failed"}
          => \A i \in 1..Len(ExportedDeclarations) :
                \E j \in 1..Len(Registered) : Registered[j] = ExportedDeclarations[i]

-----------------------------------------------------------------------------
(* C19 *)

\* The names of the properties of an object schema, in order
PropertyNames(object) == [i \in 1..Len(object.properties) |-> object.properties[i][1]]

\* The names of the own properties of a declaration, in order
OwnNames(type) == [i \in 1..Len(type.properties) |-> type.properties[i].name]

\* C19: the component schema of an interface or class with exactly one
\* supertype is an AllOf of exactly two members, a Reference to the supertype
\* and an Object with the declaration's own properties only; the component
\* schema of an interface or class without supertype is that Object alone.
C19_SupertypeAllOf ==
    \A i \in 1..Len(doc.schemas) :
        LET type == LastRegistered(doc.schemas[i][1])
            schema == doc.schemas[i][2]
            supertypes == type.extends \o type.implements
        IN  type.kind \in {InterfaceKind, ClassKind} =>
                /\ Len(supertypes) = 1 =>
                      /\ schema.kind = "AllOf"
                      /\ Len(schema.allOf) = 2
                      /\ schema.allOf[1] =
                            ReferenceObject(<<SchemasPrefix, supertypes[1].expression>>)
                      /\ schema.allOf[2].kind = "Object"
                      /\ PropertyNames(schema.allOf[2]) = OwnNames(type)
                /\ Len(supertypes) = 0 =>
                      /\ schema.kind = "Object"
                      /\ PropertyNames(schema) = OwnNames(type)

\* The class B with a property b and the class A extending B with its own
\* property n are both registered
C19_Witness ==
    /\ mapHas(doc.schemas, "B")
    /\ mapHas(doc.schemas, "A")
    /\ LastRegistered("A").kind = ClassKind
    /\ LastRegistered("B").kind = ClassKind
    /\ mapGet(doc.schemas, "A").kind = "AllOf"
    /\ pc = "written"

-----------------------------------------------------------------------------
(* SpecInherit: the OpenAPI writer on a handler whose Whole query parameter *)
(* names a declaration with supertypes up to MaxChain declarations deep     *)

MaxChain == 3

ChainNames == <<"T1", "T2", "T3", "T4", "T5">>
ChainProperties == <<"p1", "p2", "p3", "p4", "p5">>

\* The type node of a reference to a declaration by its name
NamedNode(name) == TypeReferenceNode("Identifier", name, <<>>)

\* The extends clauses declaration i can have: up to two of the declarations
\* after it, in their order
ExtendsAfter(i) ==
    {<<>>} \cup {<<Extends(ChainNames[j])>> : j \in (i + 1)..MaxChain}
           \cup {<<Extends(ChainNames[j]), Extends(ChainNames[k])>> :
                    j \in (i + 1)..MaxChain, k \in (i + 2)..MaxChain}

\* Declaration i of the chain, with one own property
ChainDeclaration(kind, i, extends) ==
    TypeDeclaration(kind, ChainNames[i], TRUE, <<>>, extends, <<>>,
                    <<Property(ChainProperties[i], <<StringKeyword>>, i = 2)>>, <<>>)

\* The type source files: one file of MaxChain interfaces, or of MaxChain
\* classes each extending at most one class
ChainSourceFiles ==
    {<<[i \in 1..MaxChain |-> ChainDeclaration(kind, i, extends[i])]>> :
        kind \in {InterfaceKind, ClassKind},
        extends \in [1..MaxChain -> UNION {ExtendsAfter(i) : i \in 1..MaxChain}]}

\* A parameter with its decorators and its type annotation
Parameter(name, decorators, type, typeNode) ==
    [name |-> name, decorators |-> decorators, type |-> type,
     optional |-> FALSE, typeNode |-> typeNode]

\* f(@Query() q: name)
WholeQuery(name) ==
    OneHandler(NoArgs, GetName, NoArgs,
               <<Parameter(<<"q">>, <<Decorator(QueryName, NoArgs)>>,
                           TypeOf(name, {"Interface"}, <<>>, <<>>, <<>>),
                           <<NamedNode(name)>>)>>,
               TypeOf("string", {"String"}, <<>>, <<>>, <<>>))

InitInherit ==
    \E typeFiles \in ChainSourceFiles, i \in 1..MaxChain :
        /\ \A d \in 1..MaxChain :
              /\ typeFiles[1][d].extends \in ExtendsAfter(d)
              /\ typeFiles[1][d].kind = ClassKind => Len(typeFiles[1][d].extends) <= 1
              /\ \A j, k \in 1..Len(typeFiles[1][d].extends) :
                    typeFiles[1][d].extends[j] = typeFiles[1][d].extends[k] => j = k
        /\ InitDocument(WholeQuery(ChainNames[i]), typeFiles, FALSE)

SpecInherit == InitInherit /\ [][NextDocument]_vars

-----------------------------------------------------------------------------
(* C13 *)

\* The declaration of the catalog with a name
Declared(name) == mapGet(types, name)

\* The names of the supertypes a declaration names in its extends clause
SupertypeNames(name) ==
    {Declared(name).extends[i].expression : i \in 1..Len(Declared(name).extends)}

RECURSIVE WithSupertypes(_, _)
\* A set of declared names with their supertypes, up to n steps away
WithSupertypes(names, n) ==
    IF n = 0 THEN names
    ELSE WithSupertypes(names \cup UNION {SupertypeNames(name) : name \in names},
                        n - 1)

\* The operation added for the handler
TheOperation == doc.paths[1][2][1][2]

\* The query parameter entries of the operation
QueryEntries == SelectSeq(TheOperation.parameters, LAMBDA p : p.in = "query")

\* The declaration the Whole query parameter of the handler names
QueryTypeName == TheMethod.parameters[1].typeNode[1].text

\* C13: the operation of a handler with a Whole query binding whose declared
\* type names an interface or class of the catalog has exactly one query
\* parameter entry per property of that declaration and of each of its
\* transitive supertypes, with required = the property is not optional and
\* the schema of the property's type; none is left out and none is repeated.
C13_OneEntryPerProperty ==
    (Parsed /\ ~Failed) =>
        LET chain == WithSupertypes({QueryTypeName}, MaxChain)
        IN  /\ \A name \in chain :
                  \A i \in 1..Len(Declared(name).properties) :
                      LET prop == Declared(name).properties[i]
                      IN  Cardinality({k \in 1..Len(QueryEntries) :
                                          QueryEntries[k].name = prop.name}) = 1
            /\ \A k \in 1..Len(QueryEntries) :
                  \E name \in chain :
                      \E i \in 1..Len(Declared(name).properties) :
                          LET prop == Declared(name).properties[i]
                          IN  /\ QueryEntries[k].name = prop.name
                              /\ QueryEntries[k].required = ~prop.hasQuestionToken
                              /\ QueryEntries[k].schema = TypeSchema("string")

-----------------------------------------------------------------------------
(* SpecOperation: the OpenAPI writer on a handler f<T> with every mix of    *)
(* body parameter, query parameter and return type                          *)

\* interface A { id: string }, class B extends A { n?: number }
CatalogFile ==
    <<TypeDeclaration(InterfaceKind, "A", TRUE, <<>>, <<>>, <<>>,
                      <<Property("id", <<StringKeyword>>, FALSE)>>, <<>>),
      TypeDeclaration(ClassKind, "B", TRUE, <<>>, <<Extends("A")>>, <<>>,
                      <<Property("n", <<NumberKeyword>>, TRUE)>>, <<>>)>>

\* The type annotations of the body parameter: A, the undeclared X, Date,
\* dto.A, A<string>, A[], string, none, the type parameter T, a type literal,
\* A | string
BodyTypeNodes ==
    { <<NamedNode("A")>>, <<NamedNode("X")>>, <<NamedNode("Date")>>,
      <<TypeReferenceNode("QualifiedName", "dto.A", <<>>)>>,
      <<TypeReferenceNode("Identifier", "A", <<StringKeyword>>)>>,
      <<ArrayTypeNode(NamedNode("A"))>>, <<StringKeyword>>, <<>>,
      <<NamedNode("T")>>, <<KeywordNode("TypeLiteral")>>,
      <<UnionTypeNode(<<NamedNode("A"), StringKeyword>>)>> }

AnyType == TypeOf("any", {}, <<>>, <<>>, <<>>)

\* @Body() b with each annotation, and @Body('x') x: string
BodyParameters ==
    {Parameter(<<"b">>, <<Decorator(BodyName, NoArgs)>>, AnyType, node) :
        node \in BodyTypeNodes}
    \cup {Parameter(<<"x">>, <<Decorator(BodyName, <<StringLiteral(<<"x">>)>>)>>,
                    AnyType, <<StringKeyword>>)}

\* @Query() q annotated with A, B, the undeclared X, dto.A, string or not at
\* all, and @Query('k') k annotated with string, A or not at all
QueryParameters ==
    {Parameter(<<"q">>, <<Decorator(QueryName, NoArgs)>>, AnyType, node) :
        node \in {<<NamedNode("A")>>, <<NamedNode("B")>>, <<NamedNode("X")>>,
                  <<TypeReferenceNode("QualifiedName", "dto.A", <<>>)>>,
                  <<StringKeyword>>, <<>>}}
    \cup {Parameter(<<"k">>, <<Decorator(QueryName, <<StringLiteral(<<"k">>)>>)>>,
                    AnyType, node) :
             node \in {<<StringKeyword>>, <<NamedNode("A")>>, <<>>}}

StringT == TypeOf("string", {"String"}, <<>>, <<>>, <<>>)
UndefinedT == TypeOf("undefined", {"Undefined"}, <<>>, <<>>, <<>>)
ClassA == TypeOf("A", {"Class", "Object"}, <<>>, <<>>, <<>>)

\* The return types after getReturnType: string, undefined, null, void, the
\* class A, A[], undefined[], Page<A>, string | undefined
ReturnTypes ==
    { StringT, UndefinedT,
      TypeOf("null", {"Null"}, <<>>, <<>>, <<>>),
      TypeOf("void", {"Void"}, <<>>, <<>>, <<>>),
      ClassA,
      TypeOf("Array", {"Object"}, <<"T">>, <<ClassA>>, <<>>),
      TypeOf("Array", {"Object"}, <<"T">>, <<UndefinedT>>, <<>>),
      TypeOf("Page", {"Object"}, <<"T">>, <<ClassA>>, <<>>),
      TypeOf("string | undefined", {"Union"}, <<>>, <<>>, <<StringT, UndefinedT>>) }

\* A controller class with the handler @Get() f<T>(parameters): returnType
GenericHandler(parameters, returnType) ==
    <<SourceFile(UsersControllerTs,
        <<Class(<<"U">>, <<Decorator(ControllerName, NoArgs)>>,
            <<[Method(<<"f">>, <<Decorator(GetName, NoArgs)>>, parameters,
                      returnType) EXCEPT !.typeParameters = <<"T">>]>>)>>)>>

InitOperation ==
    \E query \in {<<>>} \cup {<<q>> : q \in QueryParameters},
       body \in {<<>>} \cup {<<b>> : b \in BodyParameters},
       returnType \in ReturnTypes, strm \in BOOLEAN :
        InitDocument(GenericHandler(query \o body, returnType),
                     <<CatalogFile>>, strm)

SpecOperation == InitOperation /\ [][NextDocument]_vars

-----------------------------------------------------------------------------
(* C14 *)

\* The parameters of the handler with a field-less Body annotation
WholeBodies ==
    {i \in 1..Len(TheMethod.parameters) :
        /\ TheMethod.parameters[i].decorators[1].name = BodyName
        /\ TheMethod.parameters[i].decorators[1].args = <<>>}

\* The type annotation of the Whole body parameter
BodyNode ==
    TheMethod.parameters[CHOOSE i \in WholeBodies : TRUE].typeNode

\* The handler has a Whole body parameter whose annotation is a reference,
\* without type arguments, to a declaration: not to a type parameter in scope
BodyNamesDeclaration ==
    /\ WholeBodies # {}
    /\ BodyNode # <<>>
    /\ BodyNode[1].kind = "TypeReference"
    /\ BodyNode[1].typeArguments = <<>>
    /\ BodyNode[1].text \notin Range(TheMethod.typeParameters)

\* The application/json schema of the request body of the operation is schema
BodySchemaIs(schema) ==
    TheOperation.requestBody = <<[content |-> [schema |-> schema]]>>

-----------------------------------------------------------------------------
(* C15 *)

\* The 200 responses of the operation
Responses200 ==
    SelectSeq(TheOperation.responses, LAMBDA r : r[1] = "200")

\* C15: the schema of the 200 response of the operation is the resolver's
\* output for the return type of the Request, and the operation has no 200
\* response when the resolver yields no schema (undefined or null return
\* type).
C15_ResponseSchema ==
    Parsed =>
        IF TheRequest.res.flags \cap {"Undefined", "Null"} # {}
        THEN Responses200 = <<>>
        ELSE /\ Len(Responses200) = 1
             /\ Responses200[1][2].content.schema
                   = resolveTypeSchema(TheRequest.res).schema

-----------------------------------------------------------------------------
(* C17 *)

\* C17: schema resolution never raises: whatever the type annotations of the
\* parameters and properties (none at all, a qualified name, an unsupported
\* kind, a Whole query parameter naming a declaration that is not in the
\* catalog), the run goes on to produce the document.
C17_ResolutionNeverRaises == pc # "failed"

-----------------------------------------------------------------------------
(* C20 *)

\* C20: when write is called with stream set the artifact goes to stdout and
\* no file is written; when stream is unset the artifact is written to the
\* configured path and nothing goes to stdout.
C20_StreamOrFile ==
    pc = "written" =>
        IF stream THEN stdout # <<>> /\ disk = <<>>
        ELSE stdout = <<>> /\ disk # <<>>

-----------------------------------------------------------------------------
(* SpecFatal: both writers on controllers of which one may raise a fatal    *)
(* error, at its base path or at a field-less Param annotation              *)

MaxHandlers == 2

\* @Get() f<j>(): string, or @Get() f<j>(@Param() p: string): string
FatalHandler(j, fieldLess) ==
    Method(<<"f", Digits[j + 1]>>, <<Decorator(GetName, NoArgs)>>,
           IF fieldLess
           THEN <<Parameter(<<"p">>, <<Decorator(ParamName, NoArgs)>>, StringT,
                            <<StringKeyword>>)>>
           ELSE <<>>,
           StringT)

\* Where the sources raise: nowhere, at the Controller decorator of class i
\* (its argument is `new X()`), or at handler j of class i
FatalPlaces(k, h) ==
    {[class |-> 0, method |-> 0]}
    \cup {[class |-> i, method |-> 0] : i \in 1..k}
    \cup {[class |-> i, method |-> j] : i \in 1..k, j \in 1..h}

\* One source file with k controller classes of h handlers each
FatalSources(k, h, place) ==
    <<SourceFile(UsersControllerTs,
        [i \in 1..k |->
            Class(<<"C", Digits[i + 1]>>,
                  <<Decorator(ControllerName,
                              IF place.class = i /\ place.method = 0
                              THEN PipeArg ELSE NoArgs)>>,
                  [j \in 1..h |->
                      FatalHandler(j, place.class = i /\ place.method = j)])])>>

\* No type source file, one exporting interface A { id: string }, and one
\* exporting a class with a property without type annotation
FatalTypeFiles ==
    { <<>>,
      <<<<TypeDeclaration(InterfaceKind, "A", TRUE, <<>>, <<>>, <<>>,
                          <<Property("id", <<StringKeyword>>, FALSE)>>, <<>>)>>>>,
      <<<<TypeDeclaration(ClassKind, "A", TRUE, <<>>, <<>>, <<>>,
                          <<Property("id", <<>>, FALSE)>>, <<>>)>>>> }

InitFatal ==
    \E k \in 1..MaxClasses, h \in 1..MaxHandlers, strm \in BOOLEAN,
       typeFiles \in FatalTypeFiles :
        \E place \in FatalPlaces(k, h) :
            \/ \E cfg \in Destinations :
                  InitWrite(FatalSources(k, h, place), cfg, typeFiles, strm)
            \/ InitDocument(FatalSources(k, h, place), typeFiles, strm)

\* AxiosWriter.write or OpenAPIWriter.write
NextWriter == NextWrite \/ NextDocument

SpecFatal == InitFatal /\ [][NextWriter]_vars

-----------------------------------------------------------------------------
(* C21 *)

\* C21: a step that ends a writer's write with a fatal error leaves no output
\* file created or modified, with split requests/types destinations neither
\* file, and no step of the write follows it.
C21_NoOutputOnFatal ==
    [][pc # "failed" /\ (pc' = "failed" => error' # <<>> /\ disk' = <<>>)]_vars

\* The axios writer with split destinations has failed at the last handler
\* of the last controller
C21_Witness ==
    /\ pc = "failed"
    /\ error = <<ParamWithoutName>>
    /\ disk = <<>>
    /\ "typesFile" \in DOMAIN config
    /\ config.typesFile # config.requestsFile
    /\ Len(controllers) = MaxClasses
    /\ Len(controllers[MaxClasses].requests) = MaxHandlers - 1
    /\ Len(sources[1].classes[MaxClasses].methods) = MaxHandlers

-----------------------------------------------------------------------------
(* run in batch mode: Promise.all over runTask of every configuration       *)

RECURSIVE writeFunctions(_, _, _, _, _)
\* The inner loop of writeModules over controller.requests, from method m on:
\* the functions added to the namespace, or the exception of getRequests
writeFunctions(methods, m, controller, options, done) ==
    IF m > Len(methods) THEN Return(done)
    ELSE IF getVerb(methods[m]) = <<>>
    THEN writeFunctions(methods, m + 1, controller, options, done)
    ELSE LET rest(got) ==
                 IF ~got.ok THEN got
                 ELSE writeFunctions(methods, m + 1, controller, options,
                          Append(done, writeFunction(got.value, controller.baseUrl,
                                                     options)))
         IN  CHOOSE result \in {rest(got) : got \in {getRequest(methods[m],
                                                        getVerb(methods[m])[1])}} : TRUE

RECURSIVE writeModules(_, _, _, _, _)
\* AxiosWriter.writeModules run to its end, from class c of file f on: the
\* namespaces added to requestsSrc, or the exception of the parser
writeModules(srcs, f, c, options, done) ==
    IF f > Len(srcs) THEN Return(done)
    ELSE IF c > Len(srcs[f].classes) THEN writeModules(srcs, f + 1, 1, options, done)
    ELSE LET type == srcs[f].classes[c]
             deco == getDecorator(type, ControllerName)
             namespace(got, functions) ==
                 IF ~functions.ok THEN functions
                 ELSE writeModules(srcs, f, c + 1, options,
                          Append(done, [name |-> toUpperCase(got.value.name),
                                        docs |-> got.value.docs,
                                        functions |-> functions.value]))
             requests(got) ==
                 IF ~got.ok THEN got
                 ELSE CHOOSE result \in
                          {namespace(got, functions) :
                              functions \in {writeFunctions(type.methods, 1, got.value,
                                                            options, <<>>)}} : TRUE
         IN  IF deco = <<>> THEN writeModules(srcs, f, c + 1, options, done)
             ELSE CHOOSE result \in
                      {requests(got) : got \in {getController(srcs[f], type, deco[1])}} :
                      TRUE

UnknownServerType == "unknown server type"
UnknownEmitMode == "unknown emit mode"
\* what saveSync raises when the file cannot be written
IOError == "EIO"

\* A promise of runTask at a position of the function, fulfilled or rejected
TaskPromise(cfg, state, reason) == [config |-> cfg, state |-> state, reason |-> reason]

\* The files AxiosWriter.write of a task holds when it reaches its last
\* statement, or the exception that ended it
writeTask(cfg) ==
    LET mods == writeModules(cfg.input.sources, 1, 1, cfg.output.options, <<>>)
    IN  IF ~mods.ok THEN mods
        ELSE Return(sourceFilesOf(cfg.output, mods.value, <<>>, <<>>))

\* The map ending at the first call of runTask that throws, run throwing
\* what it threw
MapTasksUntilThrow ==
    /\ pc = "map"
    /\ LET throws == {i \in 1..Len(tasks) : tasks[i].config.input.parser # "nestjs"}
       IN  /\ tasks' = [i \in 1..Len(tasks) |->
                           IF \E j \in throws : j < i THEN tasks[i]
                           ELSE IF i \in throws
                           THEN TaskPromise(tasks[i].config, "rejected",
                                            <<UnknownServerType>>)
                           ELSE TaskPromise(tasks[i].config, "importParser", <<>>)]
           /\ pc' = IF throws = {} THEN "awaiting" ELSE "rejected"
           /\ error' = IF throws = {} THEN error ELSE <<UnknownServerType>>
    /\ UNCHANGED <<sources, config, cursor, controllers, modules>>
    /\ UNCHANGED joinVars
    /\ UNCHANGED <<typeSrcFiles, typesSrc, typeNames, doc, types, warnings,
                   stream, stdout, disk>>

\* configData.map((e) => runTask(e, stream)): every call runs to its first
\* await or to its throw, then run awaits Promise.all
MapTasks ==
    /\ pc = "map"
    /\ tasks' = [i \in 1..Len(tasks) |->
                    IF tasks[i].config.input.parser = "nestjs"
                    THEN TaskPromise(tasks[i].config, "importParser", <<>>)
                    ELSE TaskPromise(tasks[i].config, "rejected",
                                     <<UnknownServerType>>)]
    /\ pc' = "awaiting"
    /\ UNCHANGED <<sources, config, cursor, controllers, modules, error>>
    /\ UNCHANGED joinVars
    /\ UNCHANGED <<typeSrcFiles, typesSrc, typeNames, doc, types, warnings,
                   stream, stdout, disk>>

\* runTask i resumes after `await import('./parsers/nestjs')`: the parser is
\* constructed and the writer is chosen
ParserImported(i) ==
    /\ tasks[i].state = "importParser"
    /\ tasks' = [tasks EXCEPT ![i] =
                    IF @.config.output.writer = "axios"
                    THEN TaskPromise(@.config, "importWriter", <<>>)
                    ELSE TaskPromise(@.config, "rejected", <<UnknownEmitMode>>)]
    /\ UNCHANGED <<pc, sources, config, cursor, controllers, modules, error>>
    /\ UNCHANGED joinVars
    /\ UNCHANGED <<typeSrcFiles, typesSrc, typeNames, doc, types, warnings,
                   stream, stdout, disk>>

\* runTask i resumes after `await import('./writers/axios')`: the writer is
\* constructed and writer.write(stream) runs to its end; saveSync may raise
\* an I/O error at either file
WriterImported(i) ==
    /\ tasks[i].state = "importWriter"
    /\ LET written == writeTask(tasks[i].config)
       IN  IF ~written.ok
           THEN /\ tasks' = [tasks EXCEPT ![i] =
                       TaskPromise(@.config, "rejected", <<written.message>>)]
                /\ UNCHANGED <<stdout, disk>>
           ELSE IF stream
           THEN /\ stdout' = stdout \o written.value
                /\ tasks' = [tasks EXCEPT ![i] =
                       TaskPromise(@.config, "fulfilled", <<>>)]
                /\ UNCHANGED disk
           ELSE \E saved \in 0..Len(written.value) :
                   /\ disk' = disk \o SubSeq(written.value, 1, saved)
                   /\ tasks' = [tasks EXCEPT ![i] =
                          IF saved = Len(written.value)
                          THEN TaskPromise(@.config, "fulfilled", <<>>)
                          ELSE TaskPromise(@.config, "rejected", <<IOError>>)]
                   /\ UNCHANGED stdout
    /\ UNCHANGED <<pc, sources, config, cursor, controllers, modules, error>>
    /\ UNCHANGED joinVars
    /\ UNCHANGED <<typeSrcFiles, typesSrc, typeNames, doc, types, warnings,
                   stream>>

\* The promise of Promise.all settles and run resumes after its await: run
\* throws the reason of a rejected task, or returns when every task is
\* fulfilled
SettleAll ==
    /\ pc = "awaiting"
    /\ IF \E i \in 1..Len(tasks) : tasks[i].state = "rejected"
       THEN \E i \in 1..Len(tasks) :
               /\ tasks[i].state = "rejected"
               /\ error' = tasks[i].reason
               /\ pc' = "rejected"
       ELSE /\ \A i \in 1..Len(tasks) : tasks[i].state = "fulfilled"
            /\ pc' = "fulfilled"
            /\ UNCHANGED error
    /\ UNCHANGED <<sources, config, cursor, controllers, modules>>
    /\ UNCHANGED joinVars
    /\ UNCHANGED outVars

NextBatch ==
    \/ MapTasks
    \/ \E i \in 1..Len(tasks) : ParserImported(i)
    \/ \E i \in 1..Len(tasks) : WriterImported(i)
    \/ SettleAll

-----------------------------------------------------------------------------
(* SpecBatch: a batch of tasks, each sound or failing in one of four ways   *)

MaxTasks == 2

RequestsFiles == <<"a.ts", "b.ts", "c.ts", "d.ts">>
TypesFiles == <<"a.types.ts", "b.types.ts", "c.types.ts", "d.types.ts">>

\* The configurations of task i: sound, an unknown parser, an unknown
\* writer, a Controller decorator with an unknown argument, a field-less
\* Param annotation
TaskConfigs(i, split) ==
    LET output(writer) ==
            [writer |-> writer, options |-> <<>>,
             requestsFile |-> RequestsFiles[i],
             typesFile |-> IF split THEN TypesFiles[i] ELSE RequestsFiles[i]]
        input(parser, place) ==
            [parser |-> parser, sources |-> FatalSources(1, 1, place)]
    IN  {[input |-> input("nestjs", place), output |-> output("axios")] :
            place \in FatalPlaces(1, 1)}
        \cup {[input |-> input("koa", [class |-> 0, method |-> 0]),
               output |-> output("axios")],
              [input |-> input("nestjs", [class |-> 0, method |-> 0]),
               output |-> output("fetch")]}

InitBatch ==
    \E n \in 1..MaxTasks, split \in BOOLEAN, strm \in BOOLEAN :
        /\ tasks \in {t \in [1..n -> UNION {{TaskPromise(c, "created", <<>>) :
                                              c \in TaskConfigs(i, split)} :
                                           i \in 1..n}] :
                        \A i \in 1..n : t[i].config \in TaskConfigs(i, split)}
        /\ pc = "map"
        /\ stream = strm
        /\ sources = <<>>
        /\ config = <<>>
        /\ cursor = <<>>
        /\ controllers = <<>>
        /\ modules = <<>>
        /\ error = <<>>
        /\ baseUrl = <<>>
        /\ url = <<>>
        /\ axiosUrl = <<>>
        /\ docUrl = <<>>
        /\ typeSrcFiles = <<>>
        /\ typesSrc = <<>>
        /\ typeNames = <<>>
        /\ doc = EmptyDocument
        /\ types = <<>>
        /\ warnings = <<>>
        /\ stdout = <<>>
        /\ disk = <<>>

SpecBatch == InitBatch /\ [][NextBatch]_vars

-----------------------------------------------------------------------------
(* C22 *)

\* What runTask makes of a configuration when it runs alone and no I/O
\* error occurs
Alone(cfg) ==
    IF cfg.input.parser # "nestjs" THEN Throw(UnknownServerType)
    ELSE IF cfg.output.writer # "axios" THEN Throw(UnknownEmitMode)
    ELSE writeTask(cfg)

\* The files printed or saved so far
Output == IF stream THEN stdout ELSE disk

\* No step of run or of a task is left: the map has been made, no task
\* stands at an await, and Promise.all has settled or cannot settle
Quiescent ==
    /\ pc # "map"
    /\ \A i \in 1..Len(tasks) : tasks[i].state \notin {"importParser", "importWriter"}
    /\ pc = "awaiting" =>
          /\ \A i \in 1..Len(tasks) : tasks[i].state # "rejected"
          /\ \E i \in 1..Len(tasks) : tasks[i].state # "fulfilled"

-----------------------------------------------------------------------------
(* C23 *)

\* The sources of the handler with two or more field-less annotations
SeveralWholes == {name \in {QueryName, BodyName} : Len(FieldLess(name)) >= 2}

\* C23, as stated: when a handler has two or more field-less annotations for
\* the same source (query or body), the binding is the last such parameter in
\* declaration order, and the Partials of the source are discarded.
C23_LastWholeWins ==
    Parsed =>
        \A name \in SeveralWholes :
            BindingOf(TheRequest, name)
                = Whole(FieldLess(name)[Len(FieldLess(name))])

\* C23, amended: when a handler has two or more field-less annotations for
\* the same source (query or body), the binding is the first such parameter
\* in declaration order, as a single Whole value, and the Partials of the
\* source are discarded.
C23_FirstOfSeveralWholes ==
    Parsed =>
        \A name \in SeveralWholes :
            /\ BindingOf(TheRequest, name) = Whole(FieldLess(name)[1])
            /\ BindingOf(TheRequest, name).kind # "partials"

\* A parsed handler with a Body annotation naming a field followed by two
\* field-less ones
C23_Witness ==
    /\ Parsed
    /\ Len(Annotated(BodyName)) = 3
    /\ NamesField(FirstDecorator(Annotated(BodyName)[1], BodyName))
    /\ Len(FieldLess(BodyName)) = 2
    /\ TheRequest.data = Whole(Annotated(BodyName)[2])

-----------------------------------------------------------------------------
(* SpecResolve: the OpenAPI writer on a handler f<T>(@Body() b: N): R and   *)
(* on a class P { v: N }, for type nodes N and return types R that match    *)
(* one or several rules of the resolvers                                    *)

\* A & B written as a type node
IntersectionTypeNode(typeNodes) ==
    [kind |-> "IntersectionType", typeNodes |-> typeNodes]

\* string, A, the type parameter T, Page<A>, A | string, A & B, A[], a type
\* literal
ResolveNodes ==
    { StringKeyword, NamedNode("A"), NamedNode("T"),
      TypeReferenceNode("Identifier", "Page", <<NamedNode("A")>>),
      UnionTypeNode(<<NamedNode("A"), StringKeyword>>),
      IntersectionTypeNode(<<NamedNode("A"), NamedNode("B")>>),
      ArrayTypeNode(NamedNode("A")),
      ArrayTypeNode(TypeReferenceNode("Identifier", "Page", <<StringKeyword>>)),
      KeywordNode("TypeLiteral") }

ClassB == TypeOf("B", {"Class", "Object"}, <<>>, <<>>, <<>>)

\* The type of the member X of enum E { X, Y }
EnumLiteralT(name) == TypeOf(name, {"EnumLiteral", "NumberLiteral"}, <<>>, <<>>, <<>>)

\* string, boolean (the union true | false), undefined, the class A, the enum
\* E (the union E.X | E.Y), A | string, A & B, Page<A>, Page<A> & B, a type
\* literal, the type parameter T, A[], Page<A>[]
ResolveTypes ==
    { StringT,
      TypeOf("boolean", {"Boolean", "Union"}, <<>>, <<>>,
             <<TypeOf("true", {"BooleanLiteral"}, <<>>, <<>>, <<>>),
               TypeOf("false", {"BooleanLiteral"}, <<>>, <<>>, <<>>)>>),
      UndefinedT,
      ClassA,
      TypeOf("E", {"Enum", "Union"}, <<>>, <<>>,
             <<EnumLiteralT("E.X"), EnumLiteralT("E.Y")>>),
      TypeOf("A | string", {"Union"}, <<>>, <<>>, <<ClassA, StringT>>),
      TypeOf("A & B", {"Intersection"}, <<>>, <<>>, <<ClassA, ClassB>>),
      TypeOf("Page", {"Object"}, <<"T">>, <<ClassA>>, <<>>),
      TypeOf("{ id: string; }", {"Object"}, <<>>, <<>>, <<>>),
      TypeOf("T", {"TypeParameter"}, <<>>, <<>>, <<>>),
      TypeOf("Array", {"Object"}, <<"T">>, <<ClassA>>, <<>>),
      TypeOf("Array", {"Object"}, <<"T">>,
             <<TypeOf("Page", {"Object"}, <<"T">>, <<ClassA>>, <<>>)>>, <<>>) }

\* export class P { v: N }
ClassP(node) ==
    TypeDeclaration(ClassKind, "P", TRUE, <<>>, <<>>, <<>>,
                    <<Property("v", <<node>>, FALSE)>>, <<>>)

InitResolve ==
    \E node \in ResolveNodes, returnType \in ResolveTypes, strm \in BOOLEAN :
        InitDocument(GenericHandler(
                         <<Parameter(<<"b">>, <<Decorator(BodyName, NoArgs)>>,
                                     AnyType, <<node>>)>>, returnType),
                     <<<<ClassP(node)>>>>, strm)

SpecResolve == InitResolve /\ [][NextDocument]_vars

-----------------------------------------------------------------------------
(* C24 *)

\* The schema of the 200 response of the operation
ResponseSchema == Responses200[1][2].content.schema

\* The schema of the property v of the component P
PropertySchema == mapGet(mapGet(doc.schemas, "P").properties, "v")

\* The type node of the body parameter b and of the property v
TheNode == TheMethod.parameters[1].typeNode[1]

\* The schemas the resolvers give for the constituents of a type and of a
\* type node
MemberSchemas(type) ==
    [i \in 1..Len(type.members) |-> resolveTypeSchema(type.members[i]).schema]
NodeSchemas(node, scope) ==
    [i \in 1..Len(node.typeNodes) |->
        resolveNodeSchema(<<node.typeNodes[i]>>, scope).schema]

\* No rule listed before the union rule applies to the type: it is not
\* undefined, null, a primitive or an array
UnionComesFirst(type) ==
    /\ type.flags \cap {"Undefined", "Null", "String", "StringLiteral", "Number",
                        "NumberLiteral", "Boolean", "BooleanLiteral"} = {}
    /\ ~isArray(type)
    /\ "Union" \in type.flags

\* C24: the resolvers apply the rules in the order undefined/null, primitive,
\* array, union, intersection, named reference, type parameter, generic
\* reference, plain object: a union type that is also an enum, class or
\* interface type resolves to AnyOf of its resolved members, and an
\* intersection resolves to AllOf of its resolved members, in the return
\* type, in a parameter type and in a property type.
C24_PriorityOrder ==
    /\ Parsed =>
          /\ UnionComesFirst(TheRequest.res) =>
                ResponseSchema = AnyOfSchema(MemberSchemas(TheRequest.res))
          /\ "Intersection" \in TheRequest.res.flags =>
                ResponseSchema = AllOfSchema(MemberSchemas(TheRequest.res))
          /\ TheNode.kind = "UnionType" =>
                BodySchemaIs(AnyOfSchema(NodeSchemas(TheNode, {"T"})))
          /\ TheNode.kind = "IntersectionType" =>
                BodySchemaIs(AllOfSchema(NodeSchemas(TheNode, {"T"})))
    /\ mapHas(doc.schemas, "P") =>
          /\ typeSrcFiles[1][1].properties[1].typeNode[1].kind = "UnionType" =>
                PropertySchema = AnyOfSchema(NodeSchemas(
                    typeSrcFiles[1][1].properties[1].typeNode[1], {}))
          /\ typeSrcFiles[1][1].properties[1].typeNode[1].kind = "IntersectionType" =>
                PropertySchema = AllOfSchema(NodeSchemas(
                    typeSrcFiles[1][1].properties[1].typeNode[1], {}))

\* C24 for types that are not at once a union and an enum, and for type
\* nodes other than intersections
C24_ButEnumAndNodes ==
    /\ Parsed =>
          /\ (UnionComesFirst(TheRequest.res) /\ "Enum" \notin TheRequest.res.flags) =>
                ResponseSchema = AnyOfSchema(MemberSchemas(TheRequest.res))
          /\ "Intersection" \in TheRequest.res.flags =>
                ResponseSchema = AllOfSchema(MemberSchemas(TheRequest.res))
          /\ TheNode.kind = "UnionType" =>
                BodySchemaIs(AnyOfSchema(NodeSchemas(TheNode, {"T"})))
    /\ (/\ mapHas(doc.schemas, "P")
        /\ typeSrcFiles[1][1].properties[1].typeNode[1].kind = "UnionType") =>
          PropertySchema = AnyOfSchema(NodeSchemas(
              typeSrcFiles[1][1].properties[1].typeNode[1], {}))

-----------------------------------------------------------------------------
(* C25 *)

\* A diagnostic has been written for the text
WarnedOf(text) ==
    \E i \in 1..Len(warnings) :
        \E j \in 1..Len(warnings[i]) : warnings[i][j] = text

\* The type is a reference with type arguments other than an array
GenericReference(type) == type.typeArguments # <<>> /\ ~isArray(type)

\* C25: a type reference with type arguments, other than the array or promise
\* shape, resolves to the placeholder { type: 'object' } and a diagnostic is
\* written, in the resolver of return types and in the resolver of parameter
\* and property types; a reference without type arguments naming a type
\* parameter in scope resolves to the open schema {}.
C25_GenericPlaceholder ==
    /\ Parsed =>
          /\ GenericReference(TheRequest.res) =>
                /\ ResponseSchema = TypeSchema("object")
                /\ WarnedOf(TheRequest.res.name)
          /\ (TheNode.kind = "TypeReference" /\ TheNode.typeArguments # <<>>) =>
                /\ BodySchemaIs(TypeSchema("object"))
                /\ warnings # <<>>
          /\ (/\ TheNode.kind = "TypeReference"
              /\ TheNode.typeArguments = <<>>
              /\ TheNode.text \in Range(TheMethod.typeParameters)) =>
                BodySchemaIs(EmptySchema)
    /\ (/\ mapHas(doc.schemas, "P")
        /\ typeSrcFiles[1][1].properties[1].typeNode[1].kind = "TypeReference"
        /\ typeSrcFiles[1][1].properties[1].typeNode[1].typeArguments # <<>>) =>
          /\ PropertySchema = TypeSchema("object")
          /\ warnings # <<>>

\* The placeholder { type: 'object' } in the resolver of return types only:
\* the resolver of parameter types gives {} for a reference with type
\* arguments
C25_ObjectInTypePathOnly ==
    Parsed =>
        /\ GenericReference(TheRequest.res) =>
              /\ ResponseSchema = TypeSchema("object")
              /\ WarnedOf(TheRequest.res.name)
        /\ (TheNode.kind = "TypeReference" /\ TheNode.typeArguments # <<>>) =>
              /\ BodySchemaIs(EmptySchema)
              /\ warnings # <<>>
        /\ (/\ TheNode.kind = "TypeReference"
            /\ TheNode.typeArguments = <<>>
            /\ TheNode.text \in Range(TheMethod.typeParameters)) =>
              BodySchemaIs(EmptySchema)

-----------------------------------------------------------------------------
(* C26 *)

\* The run has left the loop over parser.getTypes()
PastComponents == pc \in {"tags", "paths", "document", "written"}

\* C26: every type declaration is registered in the catalog and in
\* components.schemas before the first controller or path is processed, and
\* no later step (addTag, addPath and the resolutions they make) adds,
\* removes or replaces an entry of the catalog or of components.schemas.
C26_CatalogBuiltFirst ==
    /\ [](PastComponents =>
            \A i \in 1..Len(ExportedDeclarations) :
                /\ mapHas(types, ExportedDeclarations[i].name)
                /\ mapHas(doc.schemas, ExportedDeclarations[i].name))
    /\ [][PastComponents => types' = types /\ doc'.schemas = doc.schemas]_vars

\* addComponent has been called on every declaration before the first
\* controller is processed, and no later step changes the catalog or
\* components.schemas
C26_ReadOnlyAfterComponents ==
    /\ [](PastComponents => cursor.type = Len(getTypes(typeSrcFiles)))
    /\ [][PastComponents => types' = types /\ doc'.schemas = doc.schemas]_vars

-----------------------------------------------------------------------------
(* SpecCycle: the OpenAPI writer on a handler whose Whole query parameter   *)
(* names one of MaxChain declarations, each extending none or any one of    *)
(* them, itself included                                                    *)

\* The extends clause of a declaration: none, or any declaration
ExtendsAny == {<<>>} \cup {<<Extends(ChainNames[j])>> : j \in 1..MaxChain}

CycleSourceFiles ==
    {<<[i \in 1..MaxChain |-> ChainDeclaration(kind, i, extends[i])]>> :
        kind \in {InterfaceKind, ClassKind},
        extends \in [1..MaxChain -> ExtendsAny]}

InitCycle ==
    \E typeFiles \in CycleSourceFiles, i \in 1..MaxChain :
        InitDocument(WholeQuery(ChainNames[i]), typeFiles, FALSE)

SpecCycle == InitCycle /\ [][NextDocument]_vars

-----------------------------------------------------------------------------
(* C27 *)

\* C27: expanding a Whole query binding into parameter entries terminates for
\* every catalog, also when the supertype references of the declarations form
\* a cycle or a declaration names itself as supertype: the expansion never
\* ends by exhausting the call stack.
C27_ExpansionTerminates == error # <<RangeError>>

\* C27 for the declarations from which no cycle of supertype references is
\* reached
C27_TerminatesWithoutCycle ==
    error = <<RangeError>> =>
        recursesForever(mapGet(types, QueryTypeName), types)

-----------------------------------------------------------------------------
(* SpecPaths: the OpenAPI writer on up to MaxRequests handlers, one to a    *)
(* controller class, whose base paths, verbs and paths coincide or differ   *)

MaxRequests == 3

ParamX == <<StringLiteral(<<":", "x">>)>>

\* Handler r in a controller class of its own; its return type tells its
\* operation from the others
RequestClass(r, base, verbName, fragment) ==
    Class(<<"C", Digits[r + 1]>>, <<Decorator(ControllerName, base)>>,
          <<Method(<<"f", Digits[r + 1]>>, <<Decorator(verbName, fragment)>>, <<>>,
                   TypeOf(ChainNames[r], {"Class", "Object"}, <<>>, <<>>, <<>>))>>)

InitPaths ==
    \E n \in 1..MaxRequests :
        \E bases \in [1..n -> {NoArgs, ParamX}],
           verbNames \in [1..n -> {GetName, PostName}],
           fragments \in [1..n -> {NoArgs, ParamX}] :
            InitDocument(<<SourceFile(UsersControllerTs,
                              [r \in 1..n |-> RequestClass(r, bases[r], verbNames[r],
                                                           fragments[r])])>>,
                         <<>>, FALSE)

SpecPaths == InitPaths /\ [][NextDocument]_vars

-----------------------------------------------------------------------------
(* C28 *)

\* The Requests added to the document so far, each with its controller
AddedRequests ==
    LET ofController(c) ==
            [k \in 1..Len(controllers[c].requests) |->
                [request |-> controllers[c].requests[k],
                 controller |-> controllers[c]]]
        upTo[c \in 0..Len(controllers)] ==
            IF c = 0 THEN <<>> ELSE upTo[c - 1] \o ofController(c)
    IN  upTo[Len(controllers)]

\* The converted url and the verb a Request is added under
PathKey(added) ==
    <<resolveUrl(added.request.url, added.controller.baseUrl), added.request.method>>

\* The <<url, verb>> pairs of the operations of a paths object
PathKeys(paths) ==
    UNION {{<<paths[i][1], paths[i][2][j][1]>> : j \in 1..Len(paths[i][2])} :
              i \in 1..Len(paths)}

\* The number of operations of a paths object
Operations(paths) ==
    LET sum[i \in 0..Len(paths)] ==
            IF i = 0 THEN 0 ELSE sum[i - 1] + Len(paths[i][2])
    IN  sum[Len(paths)]

\* The last of the added Requests with a key
LastAdded(key) ==
    AddedRequests[CHOOSE i \in 1..Len(AddedRequests) :
                     /\ PathKey(AddedRequests[i]) = key
                     /\ \A j \in (i + 1)..Len(AddedRequests) :
                           PathKey(AddedRequests[j]) # key]

\* C28: after adding any sequence of Requests, paths[url][verb] holds the
\* operation of the last Request added with that converted url and verb, the
\* number of operations is the number of distinct (url, verb) pairs among the
\* Requests, and adding a Request leaves every operation under another url or
\* another verb as it was.
C28_LastRequestPerPath ==
    /\ [](/\ PathKeys(doc.paths) = {PathKey(AddedRequests[i]) :
                                       i \in 1..Len(AddedRequests)}
          /\ Operations(doc.paths) = Cardinality(PathKeys(doc.paths))
          /\ \A key \in PathKeys(doc.paths) :
                mapGet(mapGet(doc.paths, key[1]), key[2])
                   = operationOf(LastAdded(key).request,
                                 LastAdded(key).controller, types).schema)
    /\ [][\A key \in PathKeys(doc.paths) :
             /\ key \in PathKeys(doc'.paths)
             /\ mapGet(mapGet(doc'.paths, key[1]), key[2])
                   # mapGet(mapGet(doc.paths, key[1]), key[2])
                => /\ Len(AddedRequests') = Len(AddedRequests) + 1
                   /\ PathKey(AddedRequests'[Len(AddedRequests')]) = key]_vars

\* Three Requests have been added: the first and the last under the same
\* converted url and verb, the second under the same url with another verb
C28_Witness ==
    /\ Len(AddedRequests) = 3
    /\ PathKey(AddedRequests[1]) = PathKey(AddedRequests[3])
    /\ PathKey(AddedRequests[2])[1] = PathKey(AddedRequests[1])[1]
    /\ PathKey(AddedRequests[2])[2] # PathKey(AddedRequests[1])[2]
    /\ AddedRequests[1].controller.baseUrl # AddedRequests[3].controller.baseUrl
    /\ Operations(doc.paths) = 2
    /\ Len(doc.paths) = 1

-----------------------------------------------------------------------------
(* SpecTags: the OpenAPI writer on controller classes with and without doc   *)
(* text                                                                       *)

\* The JSDoc blocks of a class: none, one without text, one with text
ClassDocs == {<<>>, <<"">>, <<"Users">>}

PostsControllerTs ==
    <<"p", "o", "s", "t", "s", ".", "c", "o", "n", "t", "r", "o", "l", "l", "e",
      "r", ".", "t", "s">>

\* Up to MaxRequests controller classes, each in a source file named after
\* users or posts, with a GET handler under a base path of its own
InitTags ==
    \E n \in 1..MaxRequests :
        \E docs \in [1..n -> ClassDocs],
           names \in [1..n -> {UsersControllerTs, PostsControllerTs}] :
            InitDocument([r \in 1..n |->
                             SourceFile(names[r],
                                 <<[RequestClass(r, <<StringLiteral(<<"c", Digits[r + 1]>>)>>,
                                                 GetName, NoArgs)
                                       EXCEPT !.docs = docs[r]]>>)],
                         <<>>, FALSE)

SpecTags == InitTags /\ [][NextDocument]_vars

-----------------------------------------------------------------------------
(* C29 *)

\* The tag names listed by the operations of the document
OperationTags ==
    UNION {UNION {Range(doc.paths[i][2][j][2].tags) : j \in 1..Len(doc.paths[i][2])} :
              i \in 1..Len(doc.paths)}

\* The names declared in the top-level tags of the document
DeclaredTags == {doc.tags[i].name : i \in 1..Len(doc.tags)}

\* The names of the controllers read so far that have doc text
DocumentedControllers ==
    {controllers[c].name : c \in {k \in 1..Len(controllers) :
                                     commentText(controllers[k].docs) # ""}}

\* C29: in the emitted document every tag name listed in an operation's tags
\* is declared in the top-level tags, controllers without doc text included.
C29_OperationTagsDeclared ==
    pc = "written" => OperationTags \subseteq DeclaredTags

\* The tags of the operations of controllers with doc text are declared, and
\* nothing else is
C29_DocumentedTagsDeclared ==
    /\ DeclaredTags = DocumentedControllers
    /\ pc = "written" =>
          /\ OperationTags = {controllers[c].name : c \in 1..Len(controllers)}
          /\ OperationTags \cap DocumentedControllers \subseteq DeclaredTags

-----------------------------------------------------------------------------
(* C30 *)

\* The request options the client stub of the handler passes to axios
TheRequestOptions ==
    writeFunction(TheRequest, controllers[1].baseUrl, <<>>).statement

\* The request options have the property `data`
HasData ==
    \E i \in 1..Len(TheRequestOptions.properties) :
        /\ TheRequestOptions.properties[i].kind = "PropertyAssignment"
        /\ TheRequestOptions.properties[i].name = DataKey

\* The operation of the handler has a requestBody
HasRequestBody == TheOperation.requestBody # <<>>

\* C30: the two emitters agree on the body of every Request: the operation of
\* the schema document has a requestBody iff the request options of the client
\* stub contain `data`, for a Whole body binding and for a body bound through
\* a Partial sequence of field-named annotations alike.
C30_EmittersAgreeOnBody ==
    pc = "written" => (HasRequestBody <=> HasData)

\* What the two emitters do: `data` for every body binding, a requestBody for
\* a Whole binding only
C30_RequestBodyOfWholeOnly ==
    pc = "written" =>
        /\ HasData <=> TheRequest.data.kind # "undefined"
        /\ HasRequestBody <=> TheRequest.data.kind = "whole"
        /\ TheRequest.data.kind = "whole" <=> WholeBodies # {}

====
